---- MODULE Spec2Model ----
(***************************************************************************)
(* Transaction-kernel composition core: the PrivateContext call tracker    *)
(* (aztec-nr/aztec/src/context/private_context.nr) and the private-kernel  *)
(* call validation (private-kernel-lib/src/common.nr).                     *)
(*                                                                         *)
(* The specifications of the module:                                       *)
(*   Spec       - one transaction executed as a stack of PrivateContext    *)
(*                invocations (nested calls are run to finish()).          *)
(*   SpecCall   - one nested-call handler applied to an arbitrary context  *)
(*                and an arbitrary item returned by the executor oracle.   *)
(*   SpecStack  - a call request checked on the side of the caller that    *)
(*                declared it and against the callee popped for it.        *)
(*   SpecKernel - validate_private_call_data applied to arbitrary private  *)
(*                call data.                                               *)
(*   SpecKeys   - sequences of request_app_nullifier_secret_key calls in   *)
(*                one invocation.                                          *)
(*   SpecRequests - validate_call_requests applied to arbitrary declared  *)
(*                hashes and call requests of a caller.                    *)
(*   SpecFinish - one PrivateContext on which finish() is called at any    *)
(*                point of a sequence of operations.                       *)
(*   SpecCompose - compose() of the tail circuit's                         *)
(*                KernelCircuitPublicInputsComposer, step by step, on      *)
(*                arbitrary accumulated arrays and hints, followed by the  *)
(*                tail: finish(), or the rest of compose_public() and      *)
(*                finish_to_public().                                      *)
(*   SpecSilo   - silo_values applied to arbitrary final note hashes and   *)
(*                nullifiers.                                              *)
(*   SpecSplit  - split_to_public applied to an arbitrary                  *)
(*                PrivateAccumulatedDataBuilder, cut and teardown gas.     *)
(*   SpecGas    - a PrivateAccumulatedDataBuilder filled push by push,     *)
(*                then finish() or finish_to_public() with its gas check.  *)
(*   SpecCapacity - the bounded sequences: either a call on its            *)
(*                PrivateContext or the filling of the builder.            *)
(*   SpecComposer - the composer as an object: compose(),                  *)
(*                compose_public(), finish() and finish_to_public()        *)
(*                called in any order, each as a whole.                    *)
(*   SpecMeter  - to_metered_gas_used on accumulated data whose log        *)
(*                preimage lengths are arbitrary Fields.                   *)
(***************************************************************************)
EXTENDS Integers, Sequences, FiniteSets, TLC

VARIABLES
    frames,         \* stack of invocations, the last one is executing
    status,         \* "running" | "finished" | "aborted"
    emitted,        \* counters stamped on recorded effects, in emission order
    windows,        \* [start, end] reported by finish() of each returned private callee
    public_inputs,  \* what finish() of the entry invocation returned
    last_call,      \* the last nested-call handler run: oracle arguments, item, verdict
    kernel          \* kernel-side check: inputs and verdicts

vars == <<frames, status, emitted, windows, public_inputs, last_call, kernel>>

----------------------------------------------------------------------------
(* Bounds of the model *)

MaxCounter == 3
MaxDepth == 2
MaxVecLen == 2

(* Input domains *)

Addresses == {1, 2}
Targets == {2}
Selectors == {1, 2}
ArgsHashes == {0, 1}
Values == {7}
NoteRefs == {7}

None == [none |-> TRUE]

----------------------------------------------------------------------------
(* BoundedVec and the zero-padded arrays behind it *)

BoundedVecFull_after_one_more(vec) == Len(vec) > MaxVecLen

BoundedVecFull(vec) == Len(vec) >= MaxVecLen

Storage(vec, empty) == [i \in 1..MaxVecLen |-> IF i <= Len(vec) THEN vec[i] ELSE empty]

EmptySideEffect == [value |-> 0, counter |-> 0]
EmptyNoteHash == [value |-> 0, counter |-> 0]
EmptyNullifier == [value |-> 0, note_hash |-> 0, counter |-> 0]
EmptyL2ToL1Message == [recipient |-> 0, content |-> 0]
EmptyKeyValidationRequest == [master_nullifier_public_key |-> 0, app_nullifier_secret_key |-> 0]

(* Hash of a call stack item: an injective encoding, never the zero hash *)
ZeroHash == << >>
ItemHash(item) == << item >>

----------------------------------------------------------------------------
(* PrivateContext *)

PrivateContextNew_counting_from_zero(inputs, args_hash) ==
    [ inputs |-> inputs,
      side_effect_counter |-> 0,
      min_revertible_side_effect_counter |->
          IF inputs.call_context.msg_sender = 0
          THEN inputs.start_side_effect_counter ELSE 0,
      args_hash |-> args_hash,
      note_hash_read_requests |-> << >>,
      nullifier_read_requests |-> << >>,
      nullifier_key_validation_requests |-> << >>,
      new_note_hashes |-> << >>,
      new_nullifiers |-> << >>,
      private_call_stack_hashes |-> << >>,
      public_call_stack_hashes |-> << >>,
      new_l2_to_l1_msgs |-> << >>,
      encrypted_logs_hashes |-> << >>,
      unencrypted_logs_hashes |-> << >>,
      nullifier_key |-> None ]

PrivateContextNew(inputs, args_hash) ==
    [ inputs |-> inputs,
      side_effect_counter |-> inputs.start_side_effect_counter,
      min_revertible_side_effect_counter |->
          IF inputs.call_context.msg_sender = 0
          THEN inputs.start_side_effect_counter ELSE 0,
      args_hash |-> args_hash,
      note_hash_read_requests |-> << >>,
      nullifier_read_requests |-> << >>,
      nullifier_key_validation_requests |-> << >>,
      new_note_hashes |-> << >>,
      new_nullifiers |-> << >>,
      private_call_stack_hashes |-> << >>,
      public_call_stack_hashes |-> << >>,
      new_l2_to_l1_msgs |-> << >>,
      encrypted_logs_hashes |-> << >>,
      unencrypted_logs_hashes |-> << >>,
      nullifier_key |-> None ]

push_new_note_hash_no_increment(self, note_hash) ==
    [self EXCEPT
        !.new_note_hashes = Append(@, [value |-> note_hash, counter |-> self.side_effect_counter])]

push_new_note_hash(self, note_hash) ==
    [self EXCEPT
        !.new_note_hashes = Append(@, [value |-> note_hash, counter |-> self.side_effect_counter]),
        !.side_effect_counter = self.side_effect_counter + 1]

push_new_nullifier_no_back_reference(self, nullifier, nullified_note_hash) ==
    [self EXCEPT
        !.new_nullifiers = Append(@, [value |-> nullifier, note_hash |-> 0,
                                      counter |-> self.side_effect_counter]),
        !.side_effect_counter = self.side_effect_counter + 1]

push_new_nullifier(self, nullifier, nullified_note_hash) ==
    [self EXCEPT
        !.new_nullifiers = Append(@, [value |-> nullifier, note_hash |-> nullified_note_hash,
                                      counter |-> self.side_effect_counter]),
        !.side_effect_counter = self.side_effect_counter + 1]

push_note_hash_read_request(self, note_hash) ==
    [self EXCEPT
        !.note_hash_read_requests = Append(@, [value |-> note_hash, counter |-> self.side_effect_counter]),
        !.side_effect_counter = self.side_effect_counter + 1]

push_nullifier_read_request(self, nullifier) ==
    [self EXCEPT
        !.nullifier_read_requests = Append(@, [value |-> nullifier, counter |-> self.side_effect_counter]),
        !.side_effect_counter = self.side_effect_counter + 1]

push_encrypted_log(self, log_hash) ==
    [self EXCEPT
        !.encrypted_logs_hashes = Append(@, [value |-> log_hash, counter |-> self.side_effect_counter]),
        !.side_effect_counter = self.side_effect_counter + 1]

emit_unencrypted_log(self, log_hash) ==
    [self EXCEPT
        !.unencrypted_logs_hashes = Append(@, [value |-> log_hash, counter |-> self.side_effect_counter]),
        !.side_effect_counter = self.side_effect_counter + 1]

finish_end_counter_at_start(self) ==
    [ call_context |-> self.inputs.call_context,
      args_hash |-> self.args_hash,
      min_revertible_side_effect_counter |-> self.min_revertible_side_effect_counter,
      note_hash_read_requests |-> Storage(self.note_hash_read_requests, EmptySideEffect),
      nullifier_read_requests |-> Storage(self.nullifier_read_requests, EmptySideEffect),
      nullifier_key_validation_requests |->
          Storage(self.nullifier_key_validation_requests, EmptyKeyValidationRequest),
      new_note_hashes |-> Storage(self.new_note_hashes, EmptyNoteHash),
      new_nullifiers |-> Storage(self.new_nullifiers, EmptyNullifier),
      private_call_stack_hashes |-> Storage(self.private_call_stack_hashes, ZeroHash),
      public_call_stack_hashes |-> Storage(self.public_call_stack_hashes, ZeroHash),
      new_l2_to_l1_msgs |-> Storage(self.new_l2_to_l1_msgs, EmptyL2ToL1Message),
      start_side_effect_counter |-> self.inputs.start_side_effect_counter,
      end_side_effect_counter |-> self.inputs.start_side_effect_counter,
      encrypted_logs_hashes |-> Storage(self.encrypted_logs_hashes, EmptySideEffect),
      unencrypted_logs_hashes |-> Storage(self.unencrypted_logs_hashes, EmptySideEffect),
      encrypted_log_preimages_length |-> 0,
      unencrypted_log_preimages_length |-> 0 ]

finish(self) ==
    [ call_context |-> self.inputs.call_context,
      args_hash |-> self.args_hash,
      min_revertible_side_effect_counter |-> self.min_revertible_side_effect_counter,
      note_hash_read_requests |-> Storage(self.note_hash_read_requests, EmptySideEffect),
      nullifier_read_requests |-> Storage(self.nullifier_read_requests, EmptySideEffect),
      nullifier_key_validation_requests |->
          Storage(self.nullifier_key_validation_requests, EmptyKeyValidationRequest),
      new_note_hashes |-> Storage(self.new_note_hashes, EmptyNoteHash),
      new_nullifiers |-> Storage(self.new_nullifiers, EmptyNullifier),
      private_call_stack_hashes |-> Storage(self.private_call_stack_hashes, ZeroHash),
      public_call_stack_hashes |-> Storage(self.public_call_stack_hashes, ZeroHash),
      new_l2_to_l1_msgs |-> Storage(self.new_l2_to_l1_msgs, EmptyL2ToL1Message),
      start_side_effect_counter |-> self.inputs.start_side_effect_counter,
      end_side_effect_counter |-> self.side_effect_counter,
      encrypted_logs_hashes |-> Storage(self.encrypted_logs_hashes, EmptySideEffect),
      unencrypted_logs_hashes |-> Storage(self.unencrypted_logs_hashes, EmptySideEffect),
      encrypted_log_preimages_length |-> 0,
      unencrypted_log_preimages_length |-> 0 ]

----------------------------------------------------------------------------
(* Nested calls: the caller-side handlers *)

OracleArgs_no_static_propagation(self, contract_address, function_selector, args_hash, is_static_call, is_delegate_call) ==
    [ contract_address |-> contract_address,
      function_selector |-> function_selector,
      args_hash |-> args_hash,
      start_side_effect_counter |-> self.side_effect_counter,
      is_static_call |-> is_static_call,
      is_delegate_call |-> is_delegate_call ]

OracleArgs(self, contract_address, function_selector, args_hash, is_static_call, is_delegate_call) ==
    [ contract_address |-> contract_address,
      function_selector |-> function_selector,
      args_hash |-> args_hash,
      start_side_effect_counter |-> self.side_effect_counter,
      is_static_call |-> (is_static_call \/ self.inputs.call_context.is_static_call),
      is_delegate_call |-> is_delegate_call ]

call_context_matches_sender_unchecked(self, contract_address, is_delegate_call, call_context) ==
    IF is_delegate_call
    THEN /\ call_context.storage_contract_address = self.inputs.call_context.storage_contract_address
         /\ call_context.msg_sender = self.inputs.call_context.msg_sender
    ELSE call_context.storage_contract_address = contract_address

call_context_matches(self, contract_address, is_delegate_call, call_context) ==
    IF is_delegate_call
    THEN /\ call_context.storage_contract_address = self.inputs.call_context.storage_contract_address
         /\ call_context.msg_sender = self.inputs.call_context.msg_sender
    ELSE /\ call_context.storage_contract_address = contract_address
         /\ call_context.msg_sender = self.inputs.call_context.storage_contract_address

call_private_function_with_packed_args_resume_at_end(self, contract_address, function_selector, args_hash, is_static_call, is_delegate_call, item) ==
    LET static == OracleArgs(self, contract_address, function_selector, args_hash,
                             is_static_call, is_delegate_call).is_static_call
        pi == item.public_inputs
        ok == /\ pi.call_context.side_effect_counter = self.side_effect_counter
              /\ pi.start_side_effect_counter = self.side_effect_counter
              /\ contract_address = item.contract_address
              /\ function_selector = item.function_data.selector
              /\ args_hash = pi.args_hash
              /\ pi.call_context.is_delegate_call = is_delegate_call
              /\ pi.call_context.is_static_call = static
              /\ call_context_matches(self, contract_address, is_delegate_call, pi.call_context)
              /\ ~BoundedVecFull(self.private_call_stack_hashes)
    IN [ ok |-> ok,
         self |-> IF ok
                  THEN [self EXCEPT
                          !.side_effect_counter = pi.end_side_effect_counter,
                          !.private_call_stack_hashes = Append(@, ItemHash(item))]
                  ELSE self ]

call_private_function_with_packed_args(self, contract_address, function_selector, args_hash, is_static_call, is_delegate_call, item) ==
    LET static == OracleArgs(self, contract_address, function_selector, args_hash,
                             is_static_call, is_delegate_call).is_static_call
        pi == item.public_inputs
        ok == /\ pi.call_context.side_effect_counter = self.side_effect_counter
              /\ pi.start_side_effect_counter = self.side_effect_counter
              /\ contract_address = item.contract_address
              /\ function_selector = item.function_data.selector
              /\ args_hash = pi.args_hash
              /\ pi.call_context.is_delegate_call = is_delegate_call
              /\ pi.call_context.is_static_call = static
              /\ call_context_matches(self, contract_address, is_delegate_call, pi.call_context)
              /\ ~BoundedVecFull(self.private_call_stack_hashes)
    IN [ ok |-> ok,
         self |-> IF ok
                  THEN [self EXCEPT
                          !.side_effect_counter = pi.end_side_effect_counter + 1,
                          !.private_call_stack_hashes = Append(@, ItemHash(item))]
                  ELSE self ]

call_public_function_with_packed_args(self, contract_address, function_selector, args_hash, is_static_call, is_delegate_call, item) ==
    LET static == OracleArgs(self, contract_address, function_selector, args_hash,
                             is_static_call, is_delegate_call).is_static_call
        pi == item.public_inputs
        ok == /\ contract_address = item.contract_address
              /\ function_selector = item.function_data.selector
              /\ pi.call_context.side_effect_counter = self.side_effect_counter
              /\ args_hash = pi.args_hash
              /\ pi.call_context.is_delegate_call = is_delegate_call
              /\ pi.call_context.is_static_call = static
              /\ call_context_matches(self, contract_address, is_delegate_call, pi.call_context)
              /\ ~BoundedVecFull(self.public_call_stack_hashes)
    IN [ ok |-> ok,
         self |-> IF ok
                  THEN [self EXCEPT
                          !.side_effect_counter = self.side_effect_counter + 1,
                          !.public_call_stack_hashes = Append(@, ItemHash(item))]
                  ELSE self ]

(* The three public variants of each handler: plain, static, delegate *)
CallKinds == {"call", "static_call", "delegate_call"}
KindIsStatic(kind) == kind = "static_call"
KindIsDelegate(kind) == kind = "delegate_call"

(* the variants used by the invocations of the modelled transaction; the   *)
(* delegate variant is exercised handler by handler under SpecCall         *)
EntryCallKinds == {"call", "static_call"}

----------------------------------------------------------------------------
(* The executor behind the call oracles: it runs the callee in the call    *)
(* context derived from the request and hands back what the callee         *)
(* declared.                                                               *)

DerivedCallContext(caller, args) ==
    [ msg_sender |-> IF args.is_delegate_call
                     THEN caller.inputs.call_context.msg_sender
                     ELSE caller.inputs.call_context.storage_contract_address,
      storage_contract_address |-> IF args.is_delegate_call
                                   THEN caller.inputs.call_context.storage_contract_address
                                   ELSE args.contract_address,
      function_selector |-> args.function_selector,
      is_delegate_call |-> args.is_delegate_call,
      is_static_call |-> args.is_static_call,
      side_effect_counter |-> args.start_side_effect_counter ]

call_private_function_internal(caller, args) ==
    [ contract_address |-> args.contract_address,
      ctx |-> PrivateContextNew(
                 [ call_context |-> DerivedCallContext(caller, args),
                   start_side_effect_counter |-> args.start_side_effect_counter ],
                 args.args_hash),
      call |-> None ]

enqueue_public_function_call_internal(caller, args) ==
    [ contract_address |-> args.contract_address,
      function_data |-> [selector |-> args.function_selector],
      public_inputs |-> [ call_context |-> DerivedCallContext(caller, args),
                          args_hash |-> args.args_hash,
                          start_side_effect_counter |-> 0,
                          end_side_effect_counter |-> 0 ] ]

PrivateCallStackItem(frame) ==
    [ contract_address |-> frame.contract_address,
      function_data |-> [selector |-> frame.ctx.inputs.call_context.function_selector],
      public_inputs |-> finish(frame.ctx) ]

----------------------------------------------------------------------------
(* Spec: one transaction as a stack of PrivateContext invocations *)

Top == frames[Len(frames)]
Running == status = "running"
CanStep == Running /\ Top.ctx.side_effect_counter < MaxCounter
SetTop(ctx) == [frames EXCEPT ![Len(frames)] = [@ EXCEPT !.ctx = ctx]]
Last(seq) == seq[Len(seq)]

EntryFrame(start) ==
    [ contract_address |-> 1,
      ctx |-> PrivateContextNew(
                 [ call_context |-> [ msg_sender |-> 0,
                                      storage_contract_address |-> 1,
                                      function_selector |-> 1,
                                      is_delegate_call |-> FALSE,
                                      is_static_call |-> FALSE,
                                      side_effect_counter |-> start ],
                   start_side_effect_counter |-> start ],
                 0),
      call |-> None ]

Init ==
    /\ frames = << EntryFrame(0) >>
    /\ status = "running"
    /\ emitted = << >>
    /\ windows = << >>
    /\ public_inputs = None
    /\ last_call = None
    /\ kernel = None

Abort ==
    /\ status' = "aborted"
    /\ UNCHANGED <<frames, emitted, windows, public_inputs, last_call, kernel>>

Record(ctx, counter) ==
    /\ frames' = SetTop(ctx)
    /\ emitted' = Append(emitted, counter)
    /\ UNCHANGED <<status, windows, public_inputs, last_call, kernel>>

PushNewNoteHashOf(note_hash) ==
    IF BoundedVecFull(Top.ctx.new_note_hashes) THEN Abort
    ELSE LET ctx == push_new_note_hash(Top.ctx, note_hash)
         IN Record(ctx, Last(ctx.new_note_hashes).counter)

PushNewNoteHash ==
    /\ CanStep
    /\ \E note_hash \in Values : PushNewNoteHashOf(note_hash)

PushNewNullifierOf(nullifier, nullified_note_hash) ==
    IF BoundedVecFull(Top.ctx.new_nullifiers) THEN Abort
    ELSE LET ctx == push_new_nullifier(Top.ctx, nullifier, nullified_note_hash)
         IN Record(ctx, Last(ctx.new_nullifiers).counter)

PushNewNullifier ==
    /\ CanStep
    /\ \E nullifier \in Values, nullified_note_hash \in NoteRefs : PushNewNullifierOf(nullifier, nullified_note_hash)

PushNoteHashReadRequestOf(note_hash) ==
    IF BoundedVecFull(Top.ctx.note_hash_read_requests) THEN Abort
    ELSE LET ctx == push_note_hash_read_request(Top.ctx, note_hash)
         IN Record(ctx, Last(ctx.note_hash_read_requests).counter)

PushNoteHashReadRequest ==
    /\ CanStep
    /\ \E note_hash \in Values : PushNoteHashReadRequestOf(note_hash)

PushNullifierReadRequestOf(nullifier) ==
    IF BoundedVecFull(Top.ctx.nullifier_read_requests) THEN Abort
    ELSE LET ctx == push_nullifier_read_request(Top.ctx, nullifier)
         IN Record(ctx, Last(ctx.nullifier_read_requests).counter)

PushNullifierReadRequest ==
    /\ CanStep
    /\ \E nullifier \in Values : PushNullifierReadRequestOf(nullifier)

PushEncryptedLogOf(log_hash) ==
    IF BoundedVecFull(Top.ctx.encrypted_logs_hashes) THEN Abort
    ELSE LET ctx == push_encrypted_log(Top.ctx, log_hash)
         IN Record(ctx, Last(ctx.encrypted_logs_hashes).counter)

PushEncryptedLog ==
    /\ CanStep
    /\ \E log_hash \in Values : PushEncryptedLogOf(log_hash)

EmitUnencryptedLogOf(log_hash) ==
    IF BoundedVecFull(Top.ctx.unencrypted_logs_hashes) THEN Abort
    ELSE LET ctx == emit_unencrypted_log(Top.ctx, log_hash)
         IN Record(ctx, Last(ctx.unencrypted_logs_hashes).counter)

EmitUnencryptedLog ==
    /\ CanStep
    /\ \E log_hash \in Values : EmitUnencryptedLogOf(log_hash)

(* call_private_function_with_packed_args up to the oracle call: the       *)
(* executor starts the callee, the caller waits for it                     *)
CallPrivateFunction ==
    /\ CanStep
    /\ Len(frames) < MaxDepth
    /\ \E contract_address \in Targets, kind \in EntryCallKinds :
         LET locals == [ contract_address |-> contract_address,
                         function_selector |-> 1,
                         args_hash |-> 0,
                         is_static_call |-> KindIsStatic(kind),
                         is_delegate_call |-> KindIsDelegate(kind) ]
             args == OracleArgs(Top.ctx, locals.contract_address, locals.function_selector,
                                locals.args_hash, locals.is_static_call, locals.is_delegate_call)
         IN frames' = Append([frames EXCEPT ![Len(frames)] = [@ EXCEPT !.call = locals]],
                             call_private_function_internal(Top.ctx, args))
    /\ UNCHANGED <<status, emitted, windows, public_inputs, last_call, kernel>>

(* the callee finishes; the rest of call_private_function_with_packed_args *)
(* runs in the caller on the returned item                                 *)
ReturnToCaller ==
    /\ Running
    /\ Len(frames) > 1
    /\ LET caller == frames[Len(frames) - 1]
           item == PrivateCallStackItem(Top)
           r == call_private_function_with_packed_args(
                    caller.ctx, caller.call.contract_address, caller.call.function_selector,
                    caller.call.args_hash, caller.call.is_static_call,
                    caller.call.is_delegate_call, item)
       IN IF r.ok
          THEN /\ frames' = Append(SubSeq(frames, 1, Len(frames) - 2),
                                   [caller EXCEPT !.ctx = r.self, !.call = None])
               /\ windows' = Append(windows,
                                    [ start |-> item.public_inputs.start_side_effect_counter,
                                      end |-> item.public_inputs.end_side_effect_counter,
                                      depth |-> Len(frames) ])
               /\ UNCHANGED <<status, emitted, public_inputs, last_call, kernel>>
          ELSE Abort

CallPublicFunction ==
    /\ CanStep
    /\ \E contract_address \in Targets, kind \in EntryCallKinds :
         LET args == OracleArgs(Top.ctx, contract_address, 1, 0,
                                KindIsStatic(kind), KindIsDelegate(kind))
             item == enqueue_public_function_call_internal(Top.ctx, args)
             r == call_public_function_with_packed_args(
                      Top.ctx, contract_address, 1, 0,
                      KindIsStatic(kind), KindIsDelegate(kind), item)
         IN IF r.ok
            THEN Record(r.self, item.public_inputs.call_context.side_effect_counter)
            ELSE Abort

Finish ==
    /\ Running
    /\ Len(frames) = 1
    /\ status' = "finished"
    /\ public_inputs' = finish(Top.ctx)
    /\ UNCHANGED <<frames, emitted, windows, last_call, kernel>>

Next ==
    \/ PushNewNoteHash
    \/ PushNewNullifier
    \/ PushNoteHashReadRequest
    \/ PushNullifierReadRequest
    \/ PushEncryptedLog
    \/ EmitUnencryptedLog
    \/ CallPrivateFunction
    \/ ReturnToCaller
    \/ CallPublicFunction
    \/ Finish

Spec == Init /\ [][Next]_vars

----------------------------------------------------------------------------
(* Properties of the call tracker under Spec *)

TopOf(fs) == fs[Len(fs)]
CountersFrom(lo, hi) == {emitted[i] : i \in {j \in 1..Len(emitted) : emitted[j] >= lo /\ emitted[j] < hi}}
NoDuplicates(seq) == \A i, j \in 1..Len(seq) : i # j => seq[i] # seq[j]
WindowEnds == {windows[i].end : i \in 1..Len(windows)}

(* C1: the counters stamped on the recorded effects of one transaction are  *)
(* strictly increasing in emission order, those emitted inside nested       *)
(* callees' windows included, so no two effects share a counter.            *)
C1_CountersStrictlyIncreasing ==
    \A i, j \in 1..Len(emitted) : i < j => emitted[i] < emitted[j]

C1_Witness ==
    /\ Len(windows) > 0
    /\ \E i, j \in 1..Len(emitted) :
         /\ emitted[i] >= windows[1].start /\ emitted[i] < windows[1].end
         /\ emitted[j] > windows[1].end

(* C2: each of the four pushes appends exactly one entry to its own         *)
(* sequence, stamped with the counter before the call (the nullifier also   *)
(* with its back-reference), increments the counter by exactly one and      *)
(* leaves everything else of the context unchanged.                         *)
Pushed(field, entry) ==
    /\ Len(frames') = Len(frames)
    /\ \A i \in 1..(Len(frames) - 1) : frames'[i] = frames[i]
    /\ TopOf(frames').ctx = [Top.ctx EXCEPT ![field] = Append(@, entry),
                                            !.side_effect_counter = @ + 1]

C2_PushAppendsOneEntry ==
    [][ (CanStep /\ status' = "running") =>
        /\ \A v \in Values : PushNewNoteHashOf(v) =>
              Pushed("new_note_hashes", [value |-> v, counter |-> Top.ctx.side_effect_counter])
        /\ \A v \in Values, r \in NoteRefs : PushNewNullifierOf(v, r) =>
              Pushed("new_nullifiers",
                     [value |-> v, note_hash |-> r, counter |-> Top.ctx.side_effect_counter])
        /\ \A v \in Values : PushNoteHashReadRequestOf(v) =>
              Pushed("note_hash_read_requests",
                     [value |-> v, counter |-> Top.ctx.side_effect_counter])
        /\ \A v \in Values : PushNullifierReadRequestOf(v) =>
              Pushed("nullifier_read_requests",
                     [value |-> v, counter |-> Top.ctx.side_effect_counter])
      ]_vars

C2_Witness ==
    /\ Len(Top.ctx.new_note_hashes) = 1
    /\ Len(Top.ctx.new_nullifiers) = 1
    /\ Top.ctx.new_nullifiers[1].note_hash = 7
    /\ Len(Top.ctx.nullifier_read_requests) = 1

(* C3 as stated: at finish time the emitted counters have no duplicates and *)
(* are exactly the contiguous range [start, end) reported by finish(), for  *)
(* the entry invocation and for every returned callee.                      *)
WindowFilled(start, end) == CountersFrom(start, end) = start..(end - 1)

C3_Original ==
    /\ NoDuplicates(emitted)
    /\ \A i \in 1..Len(windows) : WindowFilled(windows[i].start, windows[i].end)
    /\ status = "finished" =>
         WindowFilled(public_inputs.start_side_effect_counter,
                      public_inputs.end_side_effect_counter)

(* C3 amended: no duplicates, and inside [start, end) of every finished     *)
(* invocation the counters carried by no effect are exactly the end         *)
(* counters of the nested private calls returned inside that window.        *)
WindowFilledButEnds(start, end) ==
    CountersFrom(start, end) = (start..(end - 1)) \ WindowEnds

C3_ContiguousExceptCalleeEnds ==
    /\ NoDuplicates(emitted)
    /\ \A i \in 1..Len(windows) : WindowFilledButEnds(windows[i].start, windows[i].end)
    /\ status = "finished" =>
         WindowFilledButEnds(public_inputs.start_side_effect_counter,
                             public_inputs.end_side_effect_counter)

C3_Witness ==
    /\ status = "finished"
    /\ Len(windows) > 0
    /\ public_inputs.start_side_effect_counter <= windows[1].start
    /\ windows[1].end < public_inputs.end_side_effect_counter
    /\ \E i, j \in 1..Len(emitted) :
         /\ windows[1].start <= emitted[i] /\ emitted[i] < windows[1].end
         /\ emitted[j] > windows[1].end

----------------------------------------------------------------------------
(* Private kernel: array helpers and hashes of the types crate *)

is_empty_array(array, empty) == \A i \in DOMAIN array : array[i] = empty

RECURSIVE array_length_from(_, _, _)
array_length_from(array, empty, i) ==
    IF i > Len(array) \/ array[i] = empty THEN 0
    ELSE 1 + array_length_from(array, empty, i + 1)

array_length_of_an_empty_array(array, empty) == 0

array_length(array, empty) == array_length_from(array, empty, 1)

validate_array(array, empty) ==
    \A i, j \in DOMAIN array : (i < j /\ array[i] = empty) => array[j] = empty

(* an injective, never-zero combination of a small field (0..3) and a field *)
pedersen_hash(small, big) == 1 + small + 4 * big

stdlib_recursion_verification_key_compress_native_vk(vk) == pedersen_hash(vk, 0)

private_functions_root_from_siblings(selector, vk_hash, leaf_index, sibling_path) ==
    pedersen_hash(leaf_index, pedersen_hash(sibling_path, pedersen_hash(selector, vk_hash)))

ContractClassId_compute(artifact_hash, private_functions_root, public_bytecode_commitment) ==
    pedersen_hash(artifact_hash, pedersen_hash(public_bytecode_commitment, private_functions_root))

PartialAddress_compute_from_salted_initialization_hash(contract_class_id, salted_initialization_hash) ==
    pedersen_hash(salted_initialization_hash, contract_class_id)

AztecAddress_compute(public_keys_hash, partial_address) ==
    pedersen_hash(public_keys_hash, partial_address)

----------------------------------------------------------------------------
(* Private kernel: common.nr *)

EmptyCallerContext == [msg_sender |-> 0, storage_contract_address |-> 0]

EmptyCallRequest ==
    [ hash |-> ZeroHash,
      caller_contract_address |-> 0,
      caller_context |-> EmptyCallerContext,
      start_side_effect_counter |-> 0,
      end_side_effect_counter |-> 0 ]

validate_arrays(app_public_inputs) ==
    /\ validate_array(app_public_inputs.note_hash_read_requests, EmptySideEffect)
    /\ validate_array(app_public_inputs.nullifier_read_requests, EmptySideEffect)
    /\ validate_array(app_public_inputs.nullifier_key_validation_requests, EmptyKeyValidationRequest)
    /\ validate_array(app_public_inputs.new_note_hashes, EmptyNoteHash)
    /\ validate_array(app_public_inputs.new_nullifiers, EmptyNullifier)
    /\ validate_array(app_public_inputs.private_call_stack_hashes, ZeroHash)
    /\ validate_array(app_public_inputs.public_call_stack_hashes, ZeroHash)
    /\ validate_array(app_public_inputs.new_l2_to_l1_msgs, EmptyL2ToL1Message)
    /\ validate_array(app_public_inputs.encrypted_logs_hashes, EmptySideEffect)
    /\ validate_array(app_public_inputs.unencrypted_logs_hashes, EmptySideEffect)

perform_static_call_checks_no_note_hash_check(private_call) ==
    LET pi == private_call.call_stack_item.public_inputs
    IN pi.call_context.is_static_call =>
         /\ is_empty_array(pi.new_nullifiers, EmptyNullifier)
         /\ array_length(pi.new_l2_to_l1_msgs, EmptyL2ToL1Message) = 0
         /\ pi.encrypted_log_preimages_length = 4
         /\ pi.unencrypted_log_preimages_length = 4

perform_static_call_checks(private_call) ==
    LET pi == private_call.call_stack_item.public_inputs
    IN pi.call_context.is_static_call =>
         /\ is_empty_array(pi.new_note_hashes, EmptyNoteHash)
         /\ is_empty_array(pi.new_nullifiers, EmptyNullifier)
         /\ array_length(pi.new_l2_to_l1_msgs, EmptyL2ToL1Message) = 0
         /\ pi.encrypted_log_preimages_length = 4
         /\ pi.unencrypted_log_preimages_length = 4

is_valid_caller_ignoring_caller_context(request_from_stack, fn_being_verified) ==
    request_from_stack.caller_contract_address = fn_being_verified.call_stack_item.contract_address

is_valid_caller(request_from_stack, fn_being_verified) ==
    LET call_context == fn_being_verified.call_stack_item.public_inputs.call_context
        valid_caller_context ==
            /\ request_from_stack.caller_context.msg_sender = call_context.msg_sender
            /\ request_from_stack.caller_context.storage_contract_address
                   = call_context.storage_contract_address
    IN /\ request_from_stack.caller_contract_address
              = fn_being_verified.call_stack_item.contract_address
       /\ (request_from_stack.caller_context = EmptyCallerContext \/ valid_caller_context)

validate_call_requests_ignoring_undeclared(call_requests, hashes, private_call) ==
    \A i \in DOMAIN hashes :
        hashes[i] # ZeroHash =>
            /\ call_requests[i].hash = hashes[i]
            /\ is_valid_caller(call_requests[i], private_call)

validate_call_requests(call_requests, hashes, private_call) ==
    \A i \in DOMAIN hashes :
        IF hashes[i] # ZeroHash
        THEN /\ call_requests[i].hash = hashes[i]
             /\ is_valid_caller(call_requests[i], private_call)
        ELSE call_requests[i] = EmptyCallRequest

contract_logic_nonzero_address_only(private_call) ==
    private_call.call_stack_item.contract_address # 0

contract_logic(private_call) ==
    LET contract_address == private_call.call_stack_item.contract_address
        private_call_vk_hash ==
            stdlib_recursion_verification_key_compress_native_vk(private_call.vk)
        computed_private_functions_root ==
            private_functions_root_from_siblings(
                private_call.call_stack_item.function_data.selector,
                private_call_vk_hash,
                private_call.function_leaf_membership_witness.leaf_index,
                private_call.function_leaf_membership_witness.sibling_path)
        computed_contract_class_id ==
            ContractClassId_compute(
                private_call.contract_class_artifact_hash,
                computed_private_functions_root,
                private_call.contract_class_public_bytecode_commitment)
        computed_partial_address ==
            PartialAddress_compute_from_salted_initialization_hash(
                computed_contract_class_id, private_call.salted_initialization_hash)
        computed_address ==
            AztecAddress_compute(private_call.public_keys_hash, computed_partial_address)
    IN /\ contract_address # 0
       /\ computed_address = contract_address

validate_private_call_data_without_static_checks(private_call) ==
    /\ validate_arrays(private_call.call_stack_item.public_inputs)
    /\ contract_logic(private_call)
    /\ validate_call_requests(private_call.private_call_stack,
                              private_call.call_stack_item.public_inputs.private_call_stack_hashes,
                              private_call)
    /\ validate_call_requests(private_call.public_call_stack,
                              private_call.call_stack_item.public_inputs.public_call_stack_hashes,
                              private_call)

validate_private_call_data(private_call) ==
    /\ validate_arrays(private_call.call_stack_item.public_inputs)
    /\ contract_logic(private_call)
    /\ perform_static_call_checks(private_call)
    /\ validate_call_requests(private_call.private_call_stack,
                              private_call.call_stack_item.public_inputs.private_call_stack_hashes,
                              private_call)
    /\ validate_call_requests(private_call.public_call_stack,
                              private_call.call_stack_item.public_inputs.public_call_stack_hashes,
                              private_call)

validate_call_against_request_same_address_allowed(private_call, request) ==
    LET call_stack_item == private_call.call_stack_item
        call_context == call_stack_item.public_inputs.call_context
    IN /\ request.hash = ItemHash(call_stack_item)
       /\ IF call_context.is_delegate_call
          THEN /\ request.caller_context # EmptyCallerContext
               /\ call_context.msg_sender = request.caller_context.msg_sender
               /\ call_context.storage_contract_address
                      = request.caller_context.storage_contract_address
          ELSE /\ call_context.msg_sender = request.caller_contract_address
               /\ call_context.storage_contract_address = call_stack_item.contract_address

validate_call_against_request(private_call, request) ==
    LET call_stack_item == private_call.call_stack_item
        call_context == call_stack_item.public_inputs.call_context
    IN /\ request.hash = ItemHash(call_stack_item)
       /\ IF call_context.is_delegate_call
          THEN /\ request.caller_context # EmptyCallerContext
               /\ call_context.msg_sender = request.caller_context.msg_sender
               /\ call_context.storage_contract_address
                      = request.caller_context.storage_contract_address
               /\ call_stack_item.contract_address # call_context.storage_contract_address
          ELSE /\ call_context.msg_sender = request.caller_contract_address
               /\ call_context.storage_contract_address = call_stack_item.contract_address

----------------------------------------------------------------------------
(* C10 under Spec *)

LogPreimageLengths == {0, 4, 8}

PrivateCallOf(frame, encrypted_length, unencrypted_length) ==
    [ call_stack_item |->
        [ contract_address |-> frame.contract_address,
          function_data |-> [selector |-> frame.ctx.inputs.call_context.function_selector],
          public_inputs |-> [finish(frame.ctx) EXCEPT
                                !.encrypted_log_preimages_length = encrypted_length,
                                !.unencrypted_log_preimages_length = unencrypted_length] ] ]

(* C10 as stated: push_new_note_hash attempted by a static invocation fails *)
(* and records nothing.                                                     *)
C10_Original ==
    [][ \A v \in Values :
          (CanStep /\ Top.ctx.inputs.call_context.is_static_call /\ PushNewNoteHashOf(v))
              => (status' = "aborted" /\ frames' = frames) ]_vars

(* C10 amended: the tracker does not reject the push, it records the note   *)
(* hash and advances the counter as for any invocation; the violation is    *)
(* raised by perform_static_call_checks, which rejects the public inputs of *)
(* a static invocation holding a note hash, whatever its log lengths.       *)
C10_StaticPushRecordedThenRejected ==
    /\ [][ \A v \in Values :
             ( /\ CanStep
               /\ Top.ctx.inputs.call_context.is_static_call
               /\ ~BoundedVecFull(Top.ctx.new_note_hashes)
               /\ PushNewNoteHashOf(v) )
                 => ( /\ status' = "running"
                      /\ Pushed("new_note_hashes",
                                [value |-> v, counter |-> Top.ctx.side_effect_counter]) ) ]_vars
    /\ [](\A i \in 1..Len(frames) :
            ( /\ frames[i].ctx.inputs.call_context.is_static_call
              /\ Len(frames[i].ctx.new_note_hashes) > 0 )
                => \A e, u \in LogPreimageLengths :
                      ~perform_static_call_checks(PrivateCallOf(frames[i], e, u)))

C10_Witness ==
    /\ status = "running"
    /\ Top.ctx.inputs.call_context.is_static_call
    /\ Len(Top.ctx.new_note_hashes) = 1
    /\ Top.ctx.side_effect_counter = Top.ctx.inputs.start_side_effect_counter + 1

----------------------------------------------------------------------------
(* SpecCall: one nested-call handler on an arbitrary context, the item      *)
(* returned by the executor oracle being unconstrained                      *)

ItemCounters == 0..MaxCounter

CallContexts(counters) ==
    [ msg_sender : Addresses,
      storage_contract_address : Addresses,
      function_selector : {1},
      is_delegate_call : BOOLEAN,
      is_static_call : BOOLEAN,
      side_effect_counter : counters ]

InitCall ==
    /\ \E call_context \in CallContexts({1}), contract_address \in Addresses, pushed \in BOOLEAN :
         /\ call_context.is_delegate_call <=> contract_address # call_context.storage_contract_address
         /\ LET fresh == PrivateContextNew([ call_context |-> call_context,
                                             start_side_effect_counter |-> 1 ], 0)
            IN frames = << [ contract_address |-> contract_address,
                             ctx |-> IF pushed THEN push_new_note_hash(fresh, 7) ELSE fresh,
                             call |-> None ] >>
    /\ status = "running"
    /\ emitted = << >>
    /\ windows = << >>
    /\ public_inputs = None
    /\ last_call = None
    /\ kernel = None

Handled(kind, locals, item, r) ==
    /\ last_call' = [ kind |-> kind,
                      args |-> locals,
                      oracle_args |-> OracleArgs(Top.ctx, locals.contract_address,
                                                 locals.function_selector, locals.args_hash,
                                                 locals.is_static_call, locals.is_delegate_call),
                      accepted |-> r.ok,
                      item |-> IF r.ok THEN item ELSE None,
                      before |-> Top.ctx ]
    /\ frames' = SetTop(r.self)
    /\ status' = IF r.ok THEN "running" ELSE "aborted"
    /\ UNCHANGED <<emitted, windows, public_inputs, kernel>>

CallLocals ==
    [ contract_address : Addresses,
      function_selector : {1},
      args_hash : {0},
      is_static_call : BOOLEAN,
      is_delegate_call : BOOLEAN ]

CallPrivateWithItem ==
    /\ Running
    /\ last_call = None
    /\ \E locals \in CallLocals,
          contract_address \in Addresses, selector \in Selectors, args_hash \in ArgsHashes,
          call_context \in CallContexts(ItemCounters),
          start \in ItemCounters, end \in ItemCounters :
         LET item == [ contract_address |-> contract_address,
                       function_data |-> [selector |-> selector],
                       public_inputs |-> [ call_context |-> call_context,
                                           args_hash |-> args_hash,
                                           start_side_effect_counter |-> start,
                                           end_side_effect_counter |-> end ] ]
         IN Handled("private", locals, item,
                    call_private_function_with_packed_args(
                        Top.ctx, locals.contract_address, locals.function_selector,
                        locals.args_hash, locals.is_static_call, locals.is_delegate_call, item))

CallPublicWithItem ==
    /\ Running
    /\ last_call = None
    /\ \E locals \in CallLocals,
          contract_address \in Addresses, selector \in Selectors, args_hash \in ArgsHashes,
          call_context \in CallContexts(ItemCounters) :
         LET item == [ contract_address |-> contract_address,
                       function_data |-> [selector |-> selector],
                       public_inputs |-> [ call_context |-> call_context,
                                           args_hash |-> args_hash,
                                           start_side_effect_counter |-> 0,
                                           end_side_effect_counter |-> 0 ] ]
         IN Handled("public", locals, item,
                    call_public_function_with_packed_args(
                        Top.ctx, locals.contract_address, locals.function_selector,
                        locals.args_hash, locals.is_static_call, locals.is_delegate_call, item))

NextCall == CallPrivateWithItem \/ CallPublicWithItem

SpecCall == InitCall /\ [][NextCall]_vars

----------------------------------------------------------------------------
(* Properties of the nested-call handlers under SpecCall *)

Called == last_call # None
Accepted == Called /\ last_call.accepted

(* C4: after any accepted nested call the caller's counter is strictly      *)
(* greater than before the call and than every counter of the callee's      *)
(* window [start, end], and the callee's hash is appended exactly once to   *)
(* the matching call-stack sequence.                                        *)
C4_CounterAdvancesPastWindow ==
    Accepted =>
        LET before == last_call.before
            after == Top.ctx
            pi == last_call.item.public_inputs
        IN /\ after.side_effect_counter > before.side_effect_counter
           /\ \A c \in pi.start_side_effect_counter..pi.end_side_effect_counter :
                 after.side_effect_counter > c
           /\ IF last_call.kind = "private"
              THEN /\ after.private_call_stack_hashes
                         = Append(before.private_call_stack_hashes, ItemHash(last_call.item))
                   /\ after.public_call_stack_hashes = before.public_call_stack_hashes
              ELSE /\ after.public_call_stack_hashes
                         = Append(before.public_call_stack_hashes, ItemHash(last_call.item))
                   /\ after.private_call_stack_hashes = before.private_call_stack_hashes

(* C5: both handlers accept the returned item only if its contract address, *)
(* selector, args hash, delegate flag, static flag and call-context counter *)
(* equal what was requested and its storage address and msg_sender are the  *)
(* caller's (delegate call) or the target and the caller's storage address  *)
(* (ordinary call); a rejected call aborts and appends no hash.             *)
C5_AcceptsOnlyMatchingItem ==
    Called =>
        LET before == last_call.before
            args == last_call.args
        IN IF last_call.accepted
           THEN LET item == last_call.item
                    cc == item.public_inputs.call_context
                IN /\ item.contract_address = args.contract_address
                   /\ item.function_data.selector = args.function_selector
                   /\ item.public_inputs.args_hash = args.args_hash
                   /\ cc.is_delegate_call = args.is_delegate_call
                   /\ cc.is_static_call = last_call.oracle_args.is_static_call
                   /\ cc.side_effect_counter = before.side_effect_counter
                   /\ IF args.is_delegate_call
                      THEN /\ cc.storage_contract_address
                                 = before.inputs.call_context.storage_contract_address
                           /\ cc.msg_sender = before.inputs.call_context.msg_sender
                      ELSE /\ cc.storage_contract_address = args.contract_address
                           /\ cc.msg_sender
                                 = before.inputs.call_context.storage_contract_address
           ELSE /\ status = "aborted"
                /\ Top.ctx = before

C5_Witness ==
    /\ Accepted
    /\ last_call.kind = "private"
    /\ last_call.args.is_delegate_call
    /\ last_call.before.inputs.call_context.msg_sender
           # last_call.before.inputs.call_context.storage_contract_address
    /\ Len(Top.ctx.private_call_stack_hashes) = 1

(* C8: a nested private or public call issued from a static context is      *)
(* requested as static and accepted only if the callee's context is static, *)
(* whichever variant the caller used.                                       *)
C8_StaticPropagates ==
    (Called /\ last_call.before.inputs.call_context.is_static_call) =>
        /\ last_call.oracle_args.is_static_call
        /\ last_call.accepted => last_call.item.public_inputs.call_context.is_static_call

C8_Witness ==
    /\ Accepted
    /\ last_call.kind = "public"
    /\ last_call.before.inputs.call_context.is_static_call
    /\ ~last_call.args.is_static_call
    /\ last_call.args.is_delegate_call
    /\ last_call.item.public_inputs.call_context.is_static_call

----------------------------------------------------------------------------
(* Private call data handed to the kernel *)

EmptyArray(empty) == [i \in 1..MaxVecLen |-> empty]
ArraysOf(elements) == [1..MaxVecLen -> elements]
FirstSlot(element, empty) == [i \in 1..MaxVecLen |-> IF i = 1 THEN element ELSE empty]

KernelCallContext(msg_sender, storage_contract_address, is_delegate_call, is_static_call) ==
    [ msg_sender |-> msg_sender,
      storage_contract_address |-> storage_contract_address,
      function_selector |-> 1,
      is_delegate_call |-> is_delegate_call,
      is_static_call |-> is_static_call,
      side_effect_counter |-> 0 ]

KernelPublicInputs(call_context) ==
    [ call_context |-> call_context,
      args_hash |-> 0,
      min_revertible_side_effect_counter |-> 0,
      note_hash_read_requests |-> EmptyArray(EmptySideEffect),
      nullifier_read_requests |-> EmptyArray(EmptySideEffect),
      nullifier_key_validation_requests |-> EmptyArray(EmptyKeyValidationRequest),
      new_note_hashes |-> EmptyArray(EmptyNoteHash),
      new_nullifiers |-> EmptyArray(EmptyNullifier),
      private_call_stack_hashes |-> EmptyArray(ZeroHash),
      public_call_stack_hashes |-> EmptyArray(ZeroHash),
      new_l2_to_l1_msgs |-> EmptyArray(EmptyL2ToL1Message),
      start_side_effect_counter |-> 0,
      end_side_effect_counter |-> 0,
      encrypted_logs_hashes |-> EmptyArray(EmptySideEffect),
      unencrypted_logs_hashes |-> EmptyArray(EmptySideEffect),
      encrypted_log_preimages_length |-> 4,
      unencrypted_log_preimages_length |-> 4 ]

PrivateCallData(contract_address, app_public_inputs, salted_initialization_hash) ==
    [ call_stack_item |-> [ contract_address |-> contract_address,
                            function_data |-> [selector |-> 1],
                            public_inputs |-> app_public_inputs ],
      private_call_stack |-> EmptyArray(EmptyCallRequest),
      public_call_stack |-> EmptyArray(EmptyCallRequest),
      vk |-> 1,
      function_leaf_membership_witness |-> [leaf_index |-> 1, sibling_path |-> 1],
      contract_class_artifact_hash |-> 1,
      contract_class_public_bytecode_commitment |-> 1,
      salted_initialization_hash |-> salted_initialization_hash,
      public_keys_hash |-> 1 ]

(* the address contract_logic recomputes for PrivateCallData(_, _, salted) *)
DeployedAddress(salted_initialization_hash) ==
    AztecAddress_compute(1,
        PartialAddress_compute_from_salted_initialization_hash(
            ContractClassId_compute(1,
                private_functions_root_from_siblings(
                    1, stdlib_recursion_verification_key_compress_native_vk(1), 1, 1),
                1),
            salted_initialization_hash))

----------------------------------------------------------------------------
(* SpecStack: a caller's call request is checked on the caller's side and   *)
(* against the callee that is popped for it                                 *)

(* the hash of some other call stack item than the callee's *)
OtherHash ==
    ItemHash(PrivateCallData(0, KernelPublicInputs(KernelCallContext(0, 0, FALSE, FALSE)), 1)
                 .call_stack_item)

CallerContexts ==
    {EmptyCallerContext} \cup [msg_sender : Addresses, storage_contract_address : Addresses]

InitStack ==
    /\ \E caller_address \in Addresses, caller_sender \in Addresses, caller_storage \in Addresses,
          callee_address \in Addresses, callee_sender \in Addresses, callee_storage \in Addresses,
          callee_is_delegate \in BOOLEAN,
          declared \in {"none", "matching", "other"},
          request_hash \in {"empty", "matching", "other"},
          caller_contract_address \in Addresses, caller_context \in CallerContexts :
         LET callee == PrivateCallData(
                           callee_address,
                           KernelPublicInputs(KernelCallContext(callee_sender, callee_storage,
                                                                callee_is_delegate, FALSE)),
                           1)
             hash(which) == IF which = "matching" THEN ItemHash(callee.call_stack_item)
                            ELSE OtherHash
             request == IF request_hash = "empty" THEN EmptyCallRequest
                        ELSE [ hash |-> hash(request_hash),
                               caller_contract_address |-> caller_contract_address,
                               caller_context |-> caller_context,
                               start_side_effect_counter |-> 0,
                               end_side_effect_counter |-> 0 ]
             caller_inputs == [ KernelPublicInputs(
                                    KernelCallContext(caller_sender, caller_storage,
                                                      caller_address # caller_storage, FALSE))
                                EXCEPT !.private_call_stack_hashes =
                                    IF declared = "none" THEN EmptyArray(ZeroHash)
                                    ELSE FirstSlot(hash(declared), ZeroHash) ]
             caller == [ PrivateCallData(caller_address, caller_inputs, 1)
                         EXCEPT !.private_call_stack = FirstSlot(request, EmptyCallRequest) ]
         IN /\ request_hash = "empty" =>
                  (caller_contract_address = 1 /\ caller_context = EmptyCallerContext)
            /\ kernel = [ caller |-> caller,
                          request |-> request,
                          callee |-> callee,
                          requests_valid |-> "unchecked",
                          call_valid |-> "unchecked" ]
    /\ frames = << >>
    /\ status = "running"
    /\ emitted = << >>
    /\ windows = << >>
    /\ public_inputs = None
    /\ last_call = None

Verdict(passed) == IF passed THEN "accepted" ELSE "rejected"

(* the kernel iteration of the caller checks the requests it declared *)
ValidateCallRequests ==
    /\ kernel.requests_valid = "unchecked"
    /\ kernel' = [kernel EXCEPT !.requests_valid =
                     Verdict(validate_call_requests(
                                 kernel.caller.private_call_stack,
                                 kernel.caller.call_stack_item.public_inputs.private_call_stack_hashes,
                                 kernel.caller))]
    /\ UNCHANGED <<frames, status, emitted, windows, public_inputs, last_call>>

(* the kernel iteration of the callee checks it against the popped request *)
ValidateCallAgainstRequest ==
    /\ kernel.call_valid = "unchecked"
    /\ kernel' = [kernel EXCEPT !.call_valid =
                     Verdict(validate_call_against_request(kernel.callee, kernel.request))]
    /\ UNCHANGED <<frames, status, emitted, windows, public_inputs, last_call>>

NextStack == ValidateCallRequests \/ ValidateCallAgainstRequest

SpecStack == InitStack /\ [][NextStack]_vars

CalleeContext == kernel.callee.call_stack_item.public_inputs.call_context
CallerCallContext == kernel.caller.call_stack_item.public_inputs.call_context

(* C6: a callee whose call context is a delegate call is accepted against a *)
(* request only if the request's caller context is non-empty, the callee's  *)
(* msg_sender and storage address equal the caller context's, and the       *)
(* callee's contract address differs from its storage address.              *)
C6_DelegateCallAccepted ==
    (kernel.call_valid = "accepted" /\ CalleeContext.is_delegate_call) =>
        /\ kernel.request.caller_context # EmptyCallerContext
        /\ CalleeContext.msg_sender = kernel.request.caller_context.msg_sender
        /\ CalleeContext.storage_contract_address
               = kernel.request.caller_context.storage_contract_address
        /\ kernel.callee.call_stack_item.contract_address
               # CalleeContext.storage_contract_address

C6_Witness ==
    /\ kernel.call_valid = "accepted"
    /\ CalleeContext.is_delegate_call
    /\ CalleeContext.msg_sender # CalleeContext.storage_contract_address

(* C7: an ordinary (non-delegate) callee is accepted only if its storage    *)
(* address is the requested target contract address and its msg_sender is   *)
(* the storage address of the caller that declared the request, also when   *)
(* that caller is itself executing under a delegate call.                   *)
C7_OrdinaryCallAccepted ==
    ( /\ kernel.requests_valid = "accepted"
      /\ kernel.request # EmptyCallRequest
      /\ kernel.call_valid = "accepted"
      /\ ~CalleeContext.is_delegate_call ) =>
        /\ CalleeContext.storage_contract_address = kernel.callee.call_stack_item.contract_address
        /\ CalleeContext.msg_sender = CallerCallContext.storage_contract_address

(* the request as the caller's side lets it be built for this callee: its   *)
(* hash is the callee's and is the one the caller declared, its caller is   *)
(* the caller's contract address, and the caller context is passed on for a *)
(* delegate call only                                                       *)
RequestBuiltByCaller ==
    /\ kernel.request # EmptyCallRequest
    /\ kernel.request.hash = ItemHash(kernel.callee.call_stack_item)
    /\ kernel.caller.call_stack_item.public_inputs.private_call_stack_hashes[1]
         = kernel.request.hash
    /\ kernel.request.caller_contract_address = kernel.caller.call_stack_item.contract_address
    /\ kernel.request.caller_context
         = IF CalleeContext.is_delegate_call
           THEN [ msg_sender |-> CallerCallContext.msg_sender,
                  storage_contract_address |-> CallerCallContext.storage_contract_address ]
           ELSE EmptyCallerContext

(* the callee is one that the caller's PrivateContext accepts for a call to *)
(* the callee's contract address                                            *)
CalleeAcceptedByTracker ==
    /\ call_context_matches([inputs |-> [call_context |-> CallerCallContext]],
                            kernel.callee.call_stack_item.contract_address,
                            CalleeContext.is_delegate_call,
                            CalleeContext)
    /\ CalleeContext.is_delegate_call =>
          kernel.callee.call_stack_item.contract_address
              # CalleeContext.storage_contract_address

(* C14: call-stack round trip: a call request built by a caller, together   *)
(* with the callee its call produced (whose hash is the request's), passes  *)
(* validate_call_requests on the caller and validate_call_against_request   *)
(* on the callee.                                                           *)
C14_RoundTripSucceeds ==
    (RequestBuiltByCaller /\ CalleeAcceptedByTracker) =>
        /\ kernel.requests_valid # "rejected"
        /\ kernel.call_valid # "rejected"

----------------------------------------------------------------------------
(* SpecKernel: validate_private_call_data applied to the private call data  *)
(* of one kernel iteration, as supplied by the prover                       *)

SomeNoteHash == [value |-> 7, counter |-> 1]
SomeNullifier == [value |-> 7, note_hash |-> 0, counter |-> 1]
SomeL2ToL1Message == [recipient |-> 1, content |-> 7]
SaltedInitializationHashes == {1, 2}
VerificationKeys == {1, 2}

InitKernel ==
    /\ \E contract_address \in {0} \cup {DeployedAddress(h) : h \in SaltedInitializationHashes},
          salted_initialization_hash \in SaltedInitializationHashes,
          vk \in VerificationKeys,
          is_static_call \in BOOLEAN,
          new_note_hashes \in ArraysOf({EmptyNoteHash, SomeNoteHash}),
          new_nullifiers \in ArraysOf({EmptyNullifier, SomeNullifier}),
          new_l2_to_l1_msgs \in ArraysOf({EmptyL2ToL1Message, SomeL2ToL1Message}),
          encrypted_log_preimages_length \in LogPreimageLengths,
          unencrypted_log_preimages_length \in LogPreimageLengths,
          nested \in {"none", "declared", "undeclared", "other_caller"} :
         LET call_context == KernelCallContext(1, contract_address, FALSE, is_static_call)
             app_public_inputs ==
                 [ KernelPublicInputs(call_context) EXCEPT
                       !.new_note_hashes = new_note_hashes,
                       !.new_nullifiers = new_nullifiers,
                       !.new_l2_to_l1_msgs = new_l2_to_l1_msgs,
                       !.encrypted_log_preimages_length = encrypted_log_preimages_length,
                       !.unencrypted_log_preimages_length = unencrypted_log_preimages_length,
                       !.private_call_stack_hashes =
                           IF nested \in {"declared", "other_caller"}
                           THEN FirstSlot(OtherHash, ZeroHash)
                           ELSE EmptyArray(ZeroHash) ]
             request == [ hash |-> OtherHash,
                          caller_contract_address |->
                              IF nested = "other_caller" THEN 0 ELSE contract_address,
                          caller_context |-> EmptyCallerContext,
                          start_side_effect_counter |-> 0,
                          end_side_effect_counter |-> 0 ]
         IN kernel = [ private_call |->
                         [ PrivateCallData(contract_address, app_public_inputs,
                                           salted_initialization_hash)
                           EXCEPT !.vk = vk,
                                  !.private_call_stack =
                                      IF nested = "none" THEN EmptyArray(EmptyCallRequest)
                                      ELSE FirstSlot(request, EmptyCallRequest) ],
                       verdict |-> "unchecked" ]
    /\ frames = << >>
    /\ status = "running"
    /\ emitted = << >>
    /\ windows = << >>
    /\ public_inputs = None
    /\ last_call = None

ValidatePrivateCallData ==
    /\ kernel.verdict = "unchecked"
    /\ kernel' = [kernel EXCEPT !.verdict =
                     Verdict(validate_private_call_data(kernel.private_call))]
    /\ UNCHANGED <<frames, status, emitted, windows, public_inputs, last_call>>

NextKernel == ValidatePrivateCallData

SpecKernel == InitKernel /\ [][NextKernel]_vars

AppPublicInputs == kernel.private_call.call_stack_item.public_inputs

(* the length of the serialized log buffer that holds no log: its 4-byte    *)
(* total-length prefix                                                      *)
EmptyLogPreimagesLength == 4

(* C9: a private call whose call context is static is accepted by           *)
(* validate_private_call_data only if it has no new note hash, no new       *)
(* nullifier, no L2-to-L1 message and no encrypted or unencrypted log       *)
(* bytes (each log preimage is just the empty buffer); a static call with   *)
(* any of these is rejected.                                                *)
C9_StaticCallHasNoEffects ==
    (kernel.verdict # "unchecked" /\ AppPublicInputs.call_context.is_static_call) =>
        ( kernel.verdict = "accepted" =>
            /\ \A i \in 1..MaxVecLen :
                   /\ AppPublicInputs.new_note_hashes[i] = EmptyNoteHash
                   /\ AppPublicInputs.new_nullifiers[i] = EmptyNullifier
                   /\ AppPublicInputs.new_l2_to_l1_msgs[i] = EmptyL2ToL1Message
            /\ AppPublicInputs.encrypted_log_preimages_length = EmptyLogPreimagesLength
            /\ AppPublicInputs.unencrypted_log_preimages_length = EmptyLogPreimagesLength )

C9_Witness ==
    /\ kernel.verdict = "accepted"
    /\ AppPublicInputs.call_context.is_static_call
    /\ AppPublicInputs.private_call_stack_hashes[1] # ZeroHash

(* C15: identity binding: a private call is accepted by                     *)
(* validate_private_call_data only if its contract address is non-zero and  *)
(* is the address recomputed from the public keys hash and the partial      *)
(* address, itself derived from the salted initialization hash and the      *)
(* contract class id recomputed from the function selector, the             *)
(* verification key hash and the function-tree sibling path.                *)
RecomputedAddress ==
    LET private_call == kernel.private_call
        functions_root ==
            private_functions_root_from_siblings(
                private_call.call_stack_item.function_data.selector,
                stdlib_recursion_verification_key_compress_native_vk(private_call.vk),
                private_call.function_leaf_membership_witness.leaf_index,
                private_call.function_leaf_membership_witness.sibling_path)
        class_id ==
            ContractClassId_compute(private_call.contract_class_artifact_hash,
                                    functions_root,
                                    private_call.contract_class_public_bytecode_commitment)
    IN AztecAddress_compute(
           private_call.public_keys_hash,
           PartialAddress_compute_from_salted_initialization_hash(
               class_id, private_call.salted_initialization_hash))

C15_AddressIsRecomputed ==
    kernel.verdict = "accepted" =>
        /\ kernel.private_call.call_stack_item.contract_address # 0
        /\ kernel.private_call.call_stack_item.contract_address = RecomputedAddress

C15_Witness ==
    /\ kernel.verdict = "accepted"
    /\ kernel.private_call.salted_initialization_hash = 2
    /\ kernel.private_call.call_stack_item.contract_address = DeployedAddress(2)
    /\ DeployedAddress(2) # DeployedAddress(1)

----------------------------------------------------------------------------
(* SpecKeys: request_app_nullifier_secret_key called repeatedly in one      *)
(* invocation; last_call logs the request, its outcome and every query      *)
(* made to the key provider so far                                          *)

MaxKeyRequests == 3
MAX_NULLIFIER_KEY_VALIDATION_REQUESTS_PER_CALL == 1
KeyAccounts == {1, 2, 3}

(* the secret-key material provider *)
get_nullifier_keys(account) ==
    [ account |-> account,
      master_nullifier_public_key |-> 10 + account,
      app_nullifier_secret_key |-> 20 + account ]

request_app_nullifier_secret_key_any_account(self, account) ==
    IF self.nullifier_key = None
    THEN LET keys == get_nullifier_keys(account)
             request == [ master_nullifier_public_key |-> keys.master_nullifier_public_key,
                          app_nullifier_secret_key |-> keys.app_nullifier_secret_key ]
             ok == Len(self.nullifier_key_validation_requests)
                       < MAX_NULLIFIER_KEY_VALIDATION_REQUESTS_PER_CALL
         IN [ ok |-> ok,
              queried |-> << account >>,
              self |-> IF ok
                       THEN [self EXCEPT
                               !.nullifier_key_validation_requests = Append(@, request),
                               !.nullifier_key = keys]
                       ELSE self,
              returned |-> keys.app_nullifier_secret_key ]
    ELSE [ ok |-> TRUE,
           queried |-> << >>,
           self |-> self,
           returned |-> self.nullifier_key.app_nullifier_secret_key ]

request_app_nullifier_secret_key(self, account) ==
    IF self.nullifier_key = None
    THEN LET keys == get_nullifier_keys(account)
             request == [ master_nullifier_public_key |-> keys.master_nullifier_public_key,
                          app_nullifier_secret_key |-> keys.app_nullifier_secret_key ]
             ok == Len(self.nullifier_key_validation_requests)
                       < MAX_NULLIFIER_KEY_VALIDATION_REQUESTS_PER_CALL
         IN [ ok |-> ok,
              queried |-> << account >>,
              self |-> IF ok
                       THEN [self EXCEPT
                               !.nullifier_key_validation_requests = Append(@, request),
                               !.nullifier_key = keys]
                       ELSE self,
              returned |-> keys.app_nullifier_secret_key ]
    ELSE [ ok |-> self.nullifier_key.account = account,
           queried |-> << >>,
           self |-> self,
           returned |-> self.nullifier_key.app_nullifier_secret_key ]

InitKeys ==
    /\ \E call_context \in CallContexts({1}), contract_address \in Addresses, pushed \in BOOLEAN :
         /\ call_context.is_delegate_call <=> contract_address # call_context.storage_contract_address
         /\ LET fresh == PrivateContextNew([ call_context |-> call_context,
                                             start_side_effect_counter |-> 1 ], 0)
            IN frames = << [ contract_address |-> contract_address,
                             ctx |-> IF pushed THEN push_new_nullifier(fresh, 7, 0) ELSE fresh,
                             call |-> None ] >>
    /\ status = "running"
    /\ emitted = << >>
    /\ windows = << >>
    /\ public_inputs = None
    /\ last_call = [ kind |-> "request_app_nullifier_secret_key",
                     requests |-> 0,
                     queries |-> << >>,
                     account |-> 0,
                     returned |-> None ]
    /\ kernel = None

RequestAppNullifierSecretKeyOf(account) ==
    LET r == request_app_nullifier_secret_key(Top.ctx, account)
    IN /\ frames' = SetTop(r.self)
       /\ status' = IF r.ok THEN "running" ELSE "aborted"
       /\ last_call' = [ kind |-> "request_app_nullifier_secret_key",
                         requests |-> last_call.requests + 1,
                         queries |-> last_call.queries \o r.queried,
                         account |-> account,
                         returned |-> IF r.ok THEN r.returned ELSE None ]
       /\ UNCHANGED <<emitted, windows, public_inputs, kernel>>

RequestAppNullifierSecretKey ==
    /\ Running
    /\ last_call.requests < MaxKeyRequests
    /\ \E account \in KeyAccounts : RequestAppNullifierSecretKeyOf(account)

NextKeys == RequestAppNullifierSecretKey

SpecKeys == InitKeys /\ [][NextKeys]_vars

(* C11: over any sequence of request_app_nullifier_secret_key calls in one  *)
(* invocation the key provider is queried at most once and at most one key  *)
(* validation request is recorded; a repeated request for the cached        *)
(* account returns the cached secret with no new query or request; a        *)
(* request for another account fails and leaves the cached key and the      *)
(* recorded request unchanged.                                              *)
C11_OneKeyPerInvocation ==
    /\ [](/\ Len(last_call.queries) <= 1
          /\ Len(Top.ctx.nullifier_key_validation_requests) <= 1)
    /\ [][ \A account \in KeyAccounts :
             (Running /\ Top.ctx.nullifier_key # None /\ RequestAppNullifierSecretKeyOf(account))
                 => /\ frames' = frames
                    /\ last_call'.queries = last_call.queries
                    /\ IF account = Top.ctx.nullifier_key.account
                       THEN /\ status' = "running"
                            /\ last_call'.returned = Top.ctx.nullifier_key.app_nullifier_secret_key
                       ELSE status' = "aborted" ]_vars

C11_Witness ==
    /\ last_call.kind = "request_app_nullifier_secret_key"
    /\ last_call.requests = 3
    /\ status = "aborted"
    /\ last_call.queries = << 1 >>
    /\ last_call.account = 2
    /\ Top.ctx.nullifier_key = get_nullifier_keys(1)

----------------------------------------------------------------------------
(* SpecFinish: finish(self) takes the context by value and returns the      *)
(* public inputs; PrivateContext has no finished state, so the handlers     *)
(* stay callable on the context. public_inputs holds what finish() returned *)

InitFinish ==
    /\ \E start \in 0..1, is_static_call \in BOOLEAN, pushed \in BOOLEAN :
         LET fresh == PrivateContextNew(
                          [ call_context |-> [ msg_sender |-> 2,
                                               storage_contract_address |-> 1,
                                               function_selector |-> 1,
                                               is_delegate_call |-> FALSE,
                                               is_static_call |-> is_static_call,
                                               side_effect_counter |-> start ],
                            start_side_effect_counter |-> start ],
                          0)
         IN frames = << [ contract_address |-> 1,
                          ctx |-> IF pushed THEN push_note_hash_read_request(fresh, 7)
                                  ELSE fresh,
                          call |-> None ] >>
    /\ status = "running"
    /\ emitted = << >>
    /\ windows = << >>
    /\ public_inputs = None
    /\ last_call = None
    /\ kernel = None

FinishContext ==
    /\ Running
    /\ public_inputs = None
    /\ public_inputs' = finish(Top.ctx)
    /\ UNCHANGED <<frames, status, emitted, windows, last_call, kernel>>

NextFinish ==
    \/ PushNewNoteHash
    \/ PushNewNullifier
    \/ PushNoteHashReadRequest
    \/ PushNullifierReadRequest
    \/ PushEncryptedLog
    \/ EmitUnencryptedLog
    \/ CallPublicFunction
    \/ FinishContext

SpecFinish == InitFinish /\ [][NextFinish]_vars

(* C12 as stated: once finish() has returned, no push or nested call is    *)
(* performed on the invocation's context and the returned public inputs    *)
(* never change.                                                           *)
C12_Original ==
    [][ public_inputs # None => (frames' = frames /\ public_inputs' = public_inputs) ]_vars

(* C12 amended: finish() returns the effects, call-stack hashes and start   *)
(* and end counters of the context as they are when it is called and leaves *)
(* the context as it is; the returned public inputs never change afterwards,*)
(* but the context is not sealed: a later push is carried out on it as      *)
(* before finish().                                                         *)
C12_FinishReturnsSnapshot ==
    /\ [][ (public_inputs = None /\ public_inputs' # None) =>
             /\ frames' = frames
             /\ public_inputs'.start_side_effect_counter = Top.ctx.inputs.start_side_effect_counter
             /\ public_inputs'.end_side_effect_counter = Top.ctx.side_effect_counter
             /\ \A i \in 1..MaxVecLen :
                  /\ public_inputs'.new_note_hashes[i]
                       = IF i <= Len(Top.ctx.new_note_hashes)
                         THEN Top.ctx.new_note_hashes[i] ELSE EmptyNoteHash
                  /\ public_inputs'.new_nullifiers[i]
                       = IF i <= Len(Top.ctx.new_nullifiers)
                         THEN Top.ctx.new_nullifiers[i] ELSE EmptyNullifier
                  /\ public_inputs'.public_call_stack_hashes[i]
                       = IF i <= Len(Top.ctx.public_call_stack_hashes)
                         THEN Top.ctx.public_call_stack_hashes[i] ELSE ZeroHash ]_vars
    /\ [][ public_inputs # None => public_inputs' = public_inputs ]_vars
    /\ [][ \A v \in Values :
             ( /\ public_inputs # None
               /\ CanStep
               /\ ~BoundedVecFull(Top.ctx.new_note_hashes)
               /\ PushNewNoteHashOf(v) )
                 => ( /\ status' = "running"
                      /\ Pushed("new_note_hashes",
                                [value |-> v, counter |-> Top.ctx.side_effect_counter]) ) ]_vars

C12_Witness ==
    /\ public_inputs # None
    /\ status = "running"
    /\ public_inputs.end_side_effect_counter > public_inputs.start_side_effect_counter
    /\ Top.ctx.side_effect_counter > public_inputs.end_side_effect_counter
    /\ Len(Top.ctx.new_note_hashes) > 0
    /\ public_inputs.new_note_hashes[1] = EmptyNoteHash

----------------------------------------------------------------------------
(* SpecRequests: the call stack of one private call, every slot of the      *)
(* declared hashes and of the call requests supplied by the prover          *)

SomeHash ==
    ItemHash(PrivateCallData(2, KernelPublicInputs(KernelCallContext(1, 2, FALSE, FALSE)), 1)
                 .call_stack_item)

StackRequests ==
    {EmptyCallRequest} \cup
    [ hash : {SomeHash, OtherHash},
      caller_contract_address : Addresses,
      caller_context : {EmptyCallerContext,
                        [msg_sender |-> 2, storage_contract_address |-> 1]},
      start_side_effect_counter : {0},
      end_side_effect_counter : {0} ]

InitRequests ==
    /\ \E hashes \in ArraysOf({ZeroHash, SomeHash, OtherHash}),
          call_requests \in ArraysOf(StackRequests) :
         LET caller_inputs == [ KernelPublicInputs(KernelCallContext(2, 1, FALSE, FALSE))
                                EXCEPT !.private_call_stack_hashes = hashes ]
         IN kernel = [ caller |-> [ PrivateCallData(1, caller_inputs, 1)
                                    EXCEPT !.private_call_stack = call_requests ],
                       requests_valid |-> "unchecked" ]
    /\ frames = << >>
    /\ status = "running"
    /\ emitted = << >>
    /\ windows = << >>
    /\ public_inputs = None
    /\ last_call = None

NextRequests == ValidateCallRequests

SpecRequests == InitRequests /\ [][NextRequests]_vars

DeclaredHashes == kernel.caller.call_stack_item.public_inputs.private_call_stack_hashes

(* C13: validate_call_requests accepts a call stack only if, at every       *)
(* position, a non-zero declared hash is matched at that position by a call *)
(* request with the same hash, and a zero declared hash by an entirely      *)
(* empty call request.                                                      *)
C13_CallStackMatchesDeclaredHashes ==
    kernel.requests_valid = "accepted" =>
        \A i \in 1..MaxVecLen :
            IF DeclaredHashes[i] # ZeroHash
            THEN kernel.caller.private_call_stack[i].hash = DeclaredHashes[i]
            ELSE kernel.caller.private_call_stack[i] = EmptyCallRequest

C13_Witness ==
    /\ kernel.requests_valid = "accepted"
    /\ DeclaredHashes[1] = SomeHash
    /\ DeclaredHashes[MaxVecLen] = ZeroHash

----------------------------------------------------------------------------
(* KernelCircuitPublicInputsComposer (private-kernel-lib, tail circuit).    *)
(* The previous kernel's accumulated arrays and the hints are private       *)
(* witnesses of the circuit: the model draws each of them when the step     *)
(* that first reads it runs, and keeps the arrays in the state from then    *)
(* on (the index hints are read by that step only).                         *)

EmptyNoteHashContext == [value |-> 0, counter |-> 0, nullifier_counter |-> 0]

(* a note hash nullified in the same transaction, and one that is not *)
TransientNoteHash == [value |-> 7, counter |-> 1, nullifier_counter |-> 2]
SettledNoteHash == [value |-> 6, counter |-> 3, nullifier_counter |-> 0]

(* the nullifier of the transaction request, and the nullifier of TransientNoteHash *)
FirstNullifier == [value |-> 9, note_hash |-> 0, counter |-> 0]
TransientNullifier == [value |-> 8, note_hash |-> 7, counter |-> 2]

SomeLogHash == [value |-> 5, counter |-> 4]

TxNoteHashes == {EmptyNoteHashContext, TransientNoteHash, SettledNoteHash}
TxNullifiers == {EmptyNullifier, FirstNullifier, TransientNullifier}
TxLogHashes == {EmptySideEffect, SomeLogHash}

(* index hints are zero-based, as in the circuit *)
SortedIndexes == [1..MaxVecLen -> 0..(MaxVecLen - 1)]

asc_sort_by_counters(a, b) == a.counter < b.counter

assert_sorted_array_without_ordering(original_array, sorted_array, sorted_indexes, empty) ==
    /\ validate_array(original_array, empty)
    /\ \A i \in DOMAIN original_array :
           IF original_array[i] = empty
           THEN sorted_array[i] = empty
           ELSE /\ sorted_array[sorted_indexes[i] + 1] = original_array[i]
                /\ \A j \in DOMAIN original_array :
                       (j # i /\ original_array[j] # empty) => sorted_indexes[j] # sorted_indexes[i]

(* utils::arrays::assert_sorted_array: the original array is padded on the  *)
(* right, every non-empty original element is found in the sorted array at  *)
(* the index the hint gives for it, no two of them at the same index, the   *)
(* sorted array is empty where the original is, and it is ordered by the    *)
(* ordering every call of the composer passes, asc_sort_by_counters.        *)
assert_sorted_array(original_array, sorted_array, sorted_indexes, empty) ==
    /\ validate_array(original_array, empty)
    /\ \A i \in DOMAIN original_array :
           IF original_array[i] = empty
           THEN sorted_array[i] = empty
           ELSE /\ sorted_array[sorted_indexes[i] + 1] = original_array[i]
                /\ \A j \in DOMAIN original_array :
                       (j # i /\ original_array[j] # empty) => sorted_indexes[j] # sorted_indexes[i]
                /\ i > 1 => asc_sort_by_counters(sorted_array[i - 1], sorted_array[i])

(* utils::arrays::array_to_bounded_vec: the storage of the vector is the array *)
array_to_bounded_vec(array) == array

(* the hint value that marks an element as not transient *)
NoTransient == MaxVecLen

RECURSIVE KeptFrom(_, _, _)
KeptFrom_in_reverse_order(array, hints, i) ==
    IF i > Len(array) THEN << >>
    ELSE KeptFrom(array, hints, i + 1) \o (IF hints[i] = NoTransient THEN << array[i] >> ELSE << >>)

KeptFrom(array, hints, i) ==
    IF i > Len(array) THEN << >>
    ELSE (IF hints[i] = NoTransient THEN << array[i] >> ELSE << >>) \o KeptFrom(array, hints, i + 1)

PadRight(seq, empty) == [i \in 1..MaxVecLen |-> IF i <= Len(seq) THEN seq[i] ELSE empty]

verify_squashed_transient_note_hashes_and_nullifiers_unpaired(note_hashes, nullifiers, expected_note_hashes, expected_nullifiers, transient_nullifier_indexes_for_note_hashes, transient_note_hash_indexes_for_nullifiers) ==
    /\ expected_note_hashes = PadRight(KeptFrom(note_hashes, transient_nullifier_indexes_for_note_hashes, 1), EmptyNoteHashContext)
    /\ expected_nullifiers = PadRight(KeptFrom(nullifiers, transient_note_hash_indexes_for_nullifiers, 1), EmptyNullifier)

(* reset-kernel-lib verify_squashed_transient_note_hashes_and_nullifiers:   *)
(* a hinted pair is a note hash and the nullifier that nullifies it, each   *)
(* hinted to the other; the expected arrays are the elements hinted as not  *)
(* transient, in order, padded on the right.                                *)
verify_squashed_transient_note_hashes_and_nullifiers(note_hashes, nullifiers, expected_note_hashes, expected_nullifiers, transient_nullifier_indexes_for_note_hashes, transient_note_hash_indexes_for_nullifiers) ==
    /\ \A i \in DOMAIN note_hashes :
           LET nullifier_index == transient_nullifier_indexes_for_note_hashes[i]
           IN nullifier_index # NoTransient =>
                  /\ note_hashes[i] # EmptyNoteHashContext
                  /\ nullifiers[nullifier_index + 1].note_hash = note_hashes[i].value
                  /\ nullifiers[nullifier_index + 1].counter = note_hashes[i].nullifier_counter
                  /\ transient_note_hash_indexes_for_nullifiers[nullifier_index + 1] = i - 1
    /\ \A j \in DOMAIN nullifiers :
           LET note_hash_index == transient_note_hash_indexes_for_nullifiers[j]
           IN note_hash_index # NoTransient =>
                  transient_nullifier_indexes_for_note_hashes[note_hash_index + 1] = j - 1
    /\ expected_note_hashes = PadRight(KeptFrom(note_hashes, transient_nullifier_indexes_for_note_hashes, 1), EmptyNoteHashContext)
    /\ expected_nullifiers = PadRight(KeptFrom(nullifiers, transient_note_hash_indexes_for_nullifiers, 1), EmptyNullifier)

(* hash::compute_note_hash_nonce and hash::compute_unique_siloed_note_hash: *)
(* injective, never-zero combinations of their small arguments              *)
compute_note_hash_nonce_without_index(first_nullifier, commitment_index) == 10 * first_nullifier

compute_note_hash_nonce(first_nullifier, commitment_index) == 10 * first_nullifier + commitment_index

compute_unique_siloed_note_hash(nonce, siloed_note_hash) == 100 * nonce + siloed_note_hash

NoHints == [i \in 1..MaxVecLen |-> NoTransient]

(* the transient hints the model tries: no pair, or one pair of positions *)
TransientHints ==
    { [for_note_hashes |-> NoHints, for_nullifiers |-> NoHints] } \cup
    { [for_note_hashes |-> [NoHints EXCEPT ![i] = j - 1],
       for_nullifiers |-> [NoHints EXCEPT ![j] = i - 1]] : i, j \in 1..MaxVecLen }

(* PrivateKernelCircuitPublicInputsBuilder::empty(), the accumulated arrays *)
EmptyAccumulatedData ==
    [ new_note_hashes |-> EmptyArray(EmptyNoteHashContext),
      new_nullifiers |-> EmptyArray(EmptyNullifier),
      new_l2_to_l1_msgs |-> EmptyArray(0),
      encrypted_logs_hashes |-> EmptyArray(EmptySideEffect),
      unencrypted_logs_hashes |-> EmptyArray(EmptySideEffect),
      encrypted_log_preimages_length |-> 0,
      unencrypted_log_preimages_length |-> 0,
      private_call_stack |-> EmptyArray(EmptyCallRequest),
      public_call_stack |-> EmptyArray(EmptyCallRequest) ]

silo_note_hashes_without_first_nullifier_check(end) ==
    LET first_nullifier == end.new_nullifiers[1]
        note_hashes == end.new_note_hashes
    IN [ ok |-> TRUE,
         end |-> [ end EXCEPT !.new_note_hashes =
                     [ i \in DOMAIN note_hashes |->
                         IF note_hashes[i].value # 0
                         THEN [ note_hashes[i] EXCEPT !.value =
                                  compute_unique_siloed_note_hash(
                                      compute_note_hash_nonce(first_nullifier.value, i - 1),
                                      note_hashes[i].value) ]
                         ELSE note_hashes[i] ] ] ]

(* self.public_inputs.end after silo_note_hashes *)
silo_note_hashes(end) ==
    LET first_nullifier == end.new_nullifiers[1]
        note_hashes == end.new_note_hashes
    IN [ ok |-> first_nullifier.value # 0,
         end |-> [ end EXCEPT !.new_note_hashes =
                     [ i \in DOMAIN note_hashes |->
                         IF note_hashes[i].value # 0
                         THEN [ note_hashes[i] EXCEPT !.value =
                                  compute_unique_siloed_note_hash(
                                      compute_note_hash_nonce(first_nullifier.value, i - 1),
                                      note_hashes[i].value) ]
                         ELSE note_hashes[i] ] ] ]

(* a witness array the composer has not read yet *)
Unread == << >>

UnreadInputs ==
    [ private_call_stack |-> Unread,
      public_call_stack |-> Unread,
      new_note_hashes |-> Unread,
      new_nullifiers |-> Unread,
      encrypted_logs_hashes |-> Unread,
      unencrypted_logs_hashes |-> Unread ]

UnreadSorted ==
    [ new_note_hashes |-> Unread,
      new_nullifiers |-> Unread,
      encrypted_logs_hashes |-> Unread,
      unencrypted_logs_hashes |-> Unread ]

InitCompose ==
    /\ kernel = [ pc |-> "compose",
                  previous_kernel |-> UnreadInputs,
                  sorted |-> UnreadSorted,
                  note_hashes |-> Unread,
                  nullifiers |-> Unread,
                  end |-> EmptyAccumulatedData,
                  tail |-> "none",
                  gas_settings |-> None,
                  min_revertible_side_effect_counter |-> 0,
                  inputs |-> None ]
    /\ frames = << >>
    /\ status = "running"
    /\ emitted = << >>
    /\ windows = << >>
    /\ public_inputs = None
    /\ last_call = None

KernelUnchanged == UNCHANGED <<frames, status, emitted, windows, public_inputs, last_call>>

(* compose(): the private call stack of the previous kernel must be empty *)
ComposeBegin ==
    /\ kernel.pc = "compose"
    /\ \E private_call_stack \in {EmptyArray(EmptyCallRequest), FirstSlot([EmptyCallRequest EXCEPT !.hash = SomeHash], EmptyCallRequest)} :
         kernel' = [ kernel EXCEPT
                       !.previous_kernel.private_call_stack = private_call_stack,
                       !.pc = IF array_length(private_call_stack, EmptyCallRequest) = 0
                              THEN "sort_note_hashes" ELSE "rejected" ]
    /\ KernelUnchanged

(* one assert_sorted_array of propagate_sorted_arrays and the assignment   *)
(* that follows it: the composer after it, at position next when it passed *)
propagate_sorted_array(self, field, original, sorted, indexes, empty, next) ==
    LET passed == assert_sorted_array(original, sorted, indexes, empty)
    IN [ self EXCEPT
           !.previous_kernel[field] = original,
           !.sorted[field] = sorted,
           !.end = IF passed THEN [ @ EXCEPT ![field] = array_to_bounded_vec(sorted) ] ELSE @,
           !.pc = IF passed THEN next ELSE "rejected" ]

PropagateSortedNoteHashes ==
    /\ kernel.pc = "sort_note_hashes"
    /\ \E original \in ArraysOf(TxNoteHashes), sorted \in ArraysOf(TxNoteHashes), indexes \in SortedIndexes :
         kernel' = propagate_sorted_array(kernel, "new_note_hashes", original, sorted, indexes, EmptyNoteHashContext, "sort_nullifiers")
    /\ KernelUnchanged

PropagateSortedNullifiers ==
    /\ kernel.pc = "sort_nullifiers"
    /\ \E original \in ArraysOf(TxNullifiers), sorted \in ArraysOf(TxNullifiers), indexes \in SortedIndexes :
         kernel' = propagate_sorted_array(kernel, "new_nullifiers", original, sorted, indexes, EmptyNullifier, "sort_encrypted_logs")
    /\ KernelUnchanged

PropagateSortedEncryptedLogs ==
    /\ kernel.pc = "sort_encrypted_logs"
    /\ \E original \in ArraysOf(TxLogHashes), sorted \in ArraysOf(TxLogHashes), indexes \in SortedIndexes :
         kernel' = propagate_sorted_array(kernel, "encrypted_logs_hashes", original, sorted, indexes, EmptySideEffect, "sort_unencrypted_logs")
    /\ KernelUnchanged

(* an L2-to-L1 message of the transaction, a non-zero field *)
SomeMessage == pedersen_hash(0, 0)

(* the side effects of the previous kernel that propagate_sorted_arrays copies unsorted *)
UnsortedSideEffects ==
    { [ new_l2_to_l1_msgs |-> EmptyArray(0), encrypted_log_preimages_length |-> 0, unencrypted_log_preimages_length |-> 0 ],
      [ new_l2_to_l1_msgs |-> FirstSlot(SomeMessage, 0), encrypted_log_preimages_length |-> 4, unencrypted_log_preimages_length |-> 8 ] }

PropagateSortedUnencryptedLogs ==
    /\ kernel.pc = "sort_unencrypted_logs"
    /\ \E original \in ArraysOf(TxLogHashes), sorted \in ArraysOf(TxLogHashes), indexes \in SortedIndexes, rest \in UnsortedSideEffects :
         LET propagated == propagate_sorted_array(kernel, "unencrypted_logs_hashes", original, sorted, indexes, EmptySideEffect, "squash")
         IN kernel' = IF propagated.pc = "rejected" THEN propagated
                      ELSE [ propagated EXCEPT
                               !.end.new_l2_to_l1_msgs = array_to_bounded_vec(rest.new_l2_to_l1_msgs),
                               !.end.encrypted_log_preimages_length = rest.encrypted_log_preimages_length,
                               !.end.unencrypted_log_preimages_length = rest.unencrypted_log_preimages_length ]
    /\ KernelUnchanged

squash_transient_data_without_unresolved_checks(end, note_hashes, nullifiers, transient) ==
    [ ok |-> verify_squashed_transient_note_hashes_and_nullifiers(
                 end.new_note_hashes, end.new_nullifiers, note_hashes, nullifiers,
                 transient.for_note_hashes, transient.for_nullifiers),
      end |-> [ end EXCEPT !.new_note_hashes = array_to_bounded_vec(note_hashes),
                           !.new_nullifiers = array_to_bounded_vec(nullifiers) ] ]

(* what squash_transient_data does to self.public_inputs.end with the hints of the composer *)
squash_transient_data(end, note_hashes, nullifiers, transient) ==
    [ ok |-> /\ verify_squashed_transient_note_hashes_and_nullifiers(
                    end.new_note_hashes, end.new_nullifiers, note_hashes, nullifiers,
                    transient.for_note_hashes, transient.for_nullifiers)
             /\ \A i \in DOMAIN note_hashes : note_hashes[i].nullifier_counter = 0
             /\ \A i \in DOMAIN nullifiers : nullifiers[i].note_hash = 0,
      end |-> [ end EXCEPT !.new_note_hashes = array_to_bounded_vec(note_hashes),
                           !.new_nullifiers = array_to_bounded_vec(nullifiers) ] ]

SquashTransientData ==
    /\ kernel.pc = "squash"
    /\ \E note_hashes \in ArraysOf(TxNoteHashes), nullifiers \in ArraysOf(TxNullifiers), transient \in TransientHints :
         LET squashed == squash_transient_data(kernel.end, note_hashes, nullifiers, transient)
         IN kernel' = [ kernel EXCEPT
                          !.note_hashes = note_hashes,
                          !.nullifiers = nullifiers,
                          !.end = IF squashed.ok THEN squashed.end ELSE @,
                          !.pc = IF squashed.ok THEN "silo" ELSE "rejected" ]
    /\ KernelUnchanged

silo_values_resetting_counters(end) ==
    LET siloed == silo_note_hashes(end)
    IN [ siloed EXCEPT !.end.new_note_hashes = [ i \in DOMAIN @ |-> [ @[i] EXCEPT !.counter = 0 ] ] ]

(* KernelCircuitPublicInputsComposer::silo_values *)
silo_values(end) == silo_note_hashes(end)

SiloValues ==
    /\ kernel.pc = "silo"
    /\ LET siloed == silo_values(kernel.end)
       IN kernel' = [ kernel EXCEPT
                        !.end = IF siloed.ok THEN siloed.end ELSE @,
                        !.pc = IF siloed.ok THEN "composed" ELSE "rejected" ]
    /\ KernelUnchanged


(* C16: whenever compose() succeeds, every note hash of the composed output *)
(* has nullifier_counter 0 and every nullifier has note_hash 0; and when    *)
(* the supplied final arrays hold a note hash with a non-zero               *)
(* nullifier_counter or a nullifier with a non-zero note_hash, compose()    *)
(* rejects.                                                                 *)
C16_NoDanglingTransientReference ==
    /\ kernel.pc = "composed" =>
           /\ \A i \in 1..MaxVecLen : kernel.end.new_note_hashes[i].nullifier_counter = 0
           /\ \A i \in 1..MaxVecLen : kernel.end.new_nullifiers[i].note_hash = 0
    /\ ( \/ \E i \in DOMAIN kernel.note_hashes : kernel.note_hashes[i].nullifier_counter # 0
         \/ \E i \in DOMAIN kernel.nullifiers : kernel.nullifiers[i].note_hash # 0 )
           => kernel.pc = "rejected"

(* compose() succeeded on accumulated data that held a transient pair *)
C16_Witness ==
    /\ kernel.pc = "composed"
    /\ \E i \in 1..MaxVecLen : kernel.previous_kernel.new_note_hashes[i] = TransientNoteHash
    /\ \E i \in 1..MaxVecLen : kernel.previous_kernel.new_nullifiers[i] = TransientNullifier

IsSettledNoteHash(note_hash) == note_hash # EmptyNoteHashContext /\ note_hash.nullifier_counter = 0

IsSettledNullifier(nullifier) == nullifier # EmptyNullifier /\ nullifier.note_hash = 0

(* the sorted unsquashed arrays without their transient elements, compacted *)
SquashedNoteHashes == PadRight(SelectSeq(kernel.sorted.new_note_hashes, IsSettledNoteHash), EmptyNoteHashContext)

SquashedNullifiers == PadRight(SelectSeq(kernel.sorted.new_nullifiers, IsSettledNullifier), EmptyNullifier)

SquashAccepted == kernel.pc \in {"silo", "composed"}

(* C17: compose() accepts the supplied final note hashes and nullifiers     *)
(* only if they are the sorted unsquashed arrays with every transient       *)
(* (note hash, nullifier) pair removed and the rest compacted in the same   *)
(* order; every removed note hash has its nullifier in the unsquashed data, *)
(* and every removed nullifier its note hash.                               *)
C17_SquashCorrectness ==
    SquashAccepted =>
        /\ kernel.note_hashes = SquashedNoteHashes
        /\ kernel.nullifiers = SquashedNullifiers
        /\ \A i \in 1..MaxVecLen :
               kernel.sorted.new_note_hashes[i].nullifier_counter # 0 =>
                   \E j \in 1..MaxVecLen :
                       /\ kernel.sorted.new_nullifiers[j].note_hash = kernel.sorted.new_note_hashes[i].value
                       /\ kernel.sorted.new_nullifiers[j].counter = kernel.sorted.new_note_hashes[i].nullifier_counter
        /\ \A j \in 1..MaxVecLen :
               kernel.sorted.new_nullifiers[j].note_hash # 0 =>
                   \E i \in 1..MaxVecLen :
                       /\ kernel.sorted.new_note_hashes[i].value = kernel.sorted.new_nullifiers[j].note_hash
                       /\ kernel.sorted.new_note_hashes[i].nullifier_counter = kernel.sorted.new_nullifiers[j].counter

(* note hashes with counters 1 and 3 and a nullifier with counter 2 of the  *)
(* note hash at counter 1: only the note hash with counter 3 remains, and   *)
(* of the nullifiers only the first nullifier of the transaction            *)
C17_Witness ==
    /\ kernel.pc = "composed"
    /\ kernel.sorted.new_note_hashes[1] = TransientNoteHash
    /\ kernel.sorted.new_note_hashes[2] = SettledNoteHash
    /\ kernel.sorted.new_nullifiers[1] = FirstNullifier
    /\ kernel.sorted.new_nullifiers[2] = TransientNullifier
    /\ kernel.note_hashes = FirstSlot(SettledNoteHash, EmptyNoteHashContext)
    /\ kernel.nullifiers = FirstSlot(FirstNullifier, EmptyNullifier)

(* the accumulated data the squash step was given holds no transient pair *)
NoTransientPairs ==
    /\ \A i \in 1..MaxVecLen : kernel.sorted.new_note_hashes[i].nullifier_counter = 0
    /\ \A i \in 1..MaxVecLen : kernel.sorted.new_nullifiers[i].note_hash = 0

(* self.public_inputs.end as the squash step left it *)
SquashOutput ==
    [ kernel.end EXCEPT !.new_note_hashes = array_to_bounded_vec(kernel.note_hashes),
                        !.new_nullifiers = array_to_bounded_vec(kernel.nullifiers) ]

(* C18: on accumulated data without transient pairs the squash step accepts *)
(* only final arrays equal to its input arrays; and the squash step applied *)
(* to the output of a squash accepts that output, and nothing else, as the  *)
(* final arrays.                                                            *)
C18_SquashIdempotence ==
    SquashAccepted =>
        /\ NoTransientPairs =>
               /\ kernel.note_hashes = kernel.sorted.new_note_hashes
               /\ kernel.nullifiers = kernel.sorted.new_nullifiers
        /\ squash_transient_data(SquashOutput, kernel.note_hashes, kernel.nullifiers,
                                 [for_note_hashes |-> NoHints, for_nullifiers |-> NoHints]).ok
        /\ \A note_hashes \in ArraysOf(TxNoteHashes), nullifiers \in ArraysOf(TxNullifiers), transient \in TransientHints :
               LET again == squash_transient_data(SquashOutput, note_hashes, nullifiers, transient)
               IN again.ok => again.end = SquashOutput

(* compose() succeeded on a note hash and a nullifier that are not transient *)
C18_Witness ==
    /\ kernel.pc = "composed"
    /\ NoTransientPairs
    /\ kernel.sorted.new_note_hashes[1] = SettledNoteHash
    /\ kernel.sorted.new_nullifiers[1] = FirstNullifier
    /\ kernel.nullifiers = kernel.sorted.new_nullifiers

(* the arrays propagate_sorted_arrays sorts, each with the empty element of *)
(* its type and with the witness array the composer reads next              *)
SortedArrays ==
    { [field |-> "new_note_hashes", empty |-> EmptyNoteHashContext, read_next |-> kernel.sorted.new_nullifiers],
      [field |-> "new_nullifiers", empty |-> EmptyNullifier, read_next |-> kernel.sorted.encrypted_logs_hashes],
      [field |-> "encrypted_logs_hashes", empty |-> EmptySideEffect, read_next |-> kernel.sorted.unencrypted_logs_hashes],
      [field |-> "unencrypted_logs_hashes", empty |-> EmptySideEffect, read_next |-> kernel.note_hashes] }

(* the claimed sorted array of this kind was read and passed assert_sorted_array *)
SortAccepted(array) ==
    /\ kernel.sorted[array.field] # Unread
    /\ kernel.pc # "rejected" \/ array.read_next # Unread

Occurrences(array, element) == Cardinality({ i \in DOMAIN array : array[i] = element })

UniqueCounters(array, empty) ==
    \A i, j \in DOMAIN array : (i # j /\ array[i] # empty /\ array[j] # empty) => array[i].counter # array[j].counter

(* reference sort: insertion of the non-empty elements by counter *)
RECURSIVE InsertByCounter(_, _)
InsertByCounter(element, sorted) ==
    IF sorted = << >> THEN << element >>
    ELSE IF element.counter < Head(sorted).counter THEN << element >> \o sorted
    ELSE << Head(sorted) >> \o InsertByCounter(element, Tail(sorted))

RECURSIVE SortByCounterFrom(_, _, _)
SortByCounterFrom(array, empty, i) ==
    IF i > Len(array) THEN << >>
    ELSE IF array[i] = empty THEN SortByCounterFrom(array, empty, i + 1)
    ELSE InsertByCounter(array[i], SortByCounterFrom(array, empty, i + 1))

ReferenceSort(array, empty) == PadRight(SortByCounterFrom(array, empty, 1), empty)

(* C19: for note hashes, nullifiers, encrypted and unencrypted log hashes,  *)
(* a claimed sorted array that compose() accepted is ascending by counter   *)
(* with the empty elements last, holds every element as many times as the   *)
(* previous kernel's array does, and, the counters of that array being      *)
(* unique, is the reference ascending sort of it: any other claimed array   *)
(* was rejected.                                                            *)
C19_SortAndProve ==
    \A array \in SortedArrays :
        SortAccepted(array) =>
            LET original == kernel.previous_kernel[array.field]
                sorted == kernel.sorted[array.field]
            IN /\ \A i, j \in 1..MaxVecLen :
                      (i < j /\ sorted[j] # array.empty) =>
                          (sorted[i] # array.empty /\ sorted[i].counter < sorted[j].counter)
               /\ \A i \in 1..MaxVecLen :
                      /\ Occurrences(sorted, original[i]) = Occurrences(original, original[i])
                      /\ Occurrences(original, sorted[i]) = Occurrences(sorted, sorted[i])
               /\ UniqueCounters(original, array.empty)
               /\ sorted = ReferenceSort(original, array.empty)

(* compose() succeeded on note hashes and nullifiers that the previous      *)
(* kernel held in descending order of their counters                        *)
C19_Witness ==
    /\ kernel.pc = "composed"
    /\ kernel.previous_kernel.new_note_hashes[1] = SettledNoteHash
    /\ kernel.previous_kernel.new_note_hashes[2] = TransientNoteHash
    /\ kernel.sorted.new_note_hashes[1] = TransientNoteHash
    /\ kernel.previous_kernel.new_nullifiers[1] = TransientNullifier
    /\ kernel.previous_kernel.new_nullifiers[2] = FirstNullifier
    /\ kernel.sorted.new_nullifiers[1] = FirstNullifier
    /\ kernel.sorted.encrypted_logs_hashes[1] = SomeLogHash

----------------------------------------------------------------------------
(* silo_note_hashes applied to arbitrary post-squash note hashes and        *)
(* nullifiers                                                               *)

(* a later note hash with the same raw value as SettledNoteHash *)
RepeatedNoteHash == [value |-> 6, counter |-> 5, nullifier_counter |-> 0]

(* a note hash with another raw value *)
EarlierNoteHash == [value |-> 7, counter |-> 1, nullifier_counter |-> 0]

OtherNullifier == [value |-> 8, note_hash |-> 0, counter |-> 2]

(* arrays as array_to_bounded_vec leaves them: the empty elements on the right *)
PaddedArraysOf(elements, empty) == { array \in ArraysOf(elements) : validate_array(array, empty) }

InitSilo ==
    /\ \E note_hashes \in PaddedArraysOf({EmptyNoteHashContext, EarlierNoteHash, SettledNoteHash, RepeatedNoteHash}, EmptyNoteHashContext),
          nullifiers \in PaddedArraysOf({EmptyNullifier, FirstNullifier, OtherNullifier}, EmptyNullifier) :
         kernel = [ pc |-> "silo",
                    note_hashes |-> note_hashes,
                    nullifiers |-> nullifiers,
                    end |-> [ EmptyAccumulatedData EXCEPT !.new_note_hashes = array_to_bounded_vec(note_hashes),
                                                          !.new_nullifiers = array_to_bounded_vec(nullifiers) ] ]
    /\ frames = << >>
    /\ status = "running"
    /\ emitted = << >>
    /\ windows = << >>
    /\ public_inputs = None
    /\ last_call = None

NextSilo == SiloValues

SpecSilo == InitSilo /\ [][NextSilo]_vars

(* the hash of (nonce of the first nullifier and the position, raw value) *)
SiloedValue(i) ==
    compute_unique_siloed_note_hash(compute_note_hash_nonce(kernel.nullifiers[1].value, i - 1), kernel.note_hashes[i].value)

(* C21: after the silo step the value of every surviving note hash at       *)
(* position i is the hash of the nonce (first nullifier, i) and its raw     *)
(* value, its other fields and the empty entries are untouched, and two     *)
(* surviving note hashes at different positions have different values,      *)
(* also when their raw values are equal.                                    *)
C21_SiloedNoteHashes ==
    kernel.pc = "composed" =>
        /\ \A i \in 1..MaxVecLen :
               kernel.end.new_note_hashes[i] =
                   IF kernel.note_hashes[i].value # 0
                   THEN [ kernel.note_hashes[i] EXCEPT !.value = SiloedValue(i) ]
                   ELSE kernel.note_hashes[i]
        /\ \A i, j \in 1..MaxVecLen :
               (i # j /\ kernel.note_hashes[i].value # 0 /\ kernel.note_hashes[j].value # 0) =>
                   kernel.end.new_note_hashes[i].value # kernel.end.new_note_hashes[j].value

(* two surviving note hashes with the same raw value were siloed *)
C21_Witness ==
    /\ kernel.pc = "composed"
    /\ kernel.note_hashes[1] = SettledNoteHash
    /\ kernel.note_hashes[2] = RepeatedNoteHash
    /\ kernel.end.new_note_hashes[1].value # kernel.end.new_note_hashes[2].value

----------------------------------------------------------------------------
(* PrivateAccumulatedDataBuilder: gas metering and split_to_public          *)

DA_BYTES_PER_FIELD == 32
DA_GAS_PER_BYTE == 16
FIXED_DA_GAS == 512
FIXED_L2_GAS == 512

GasNew(da_gas, l2_gas) == [da_gas |-> da_gas, l2_gas |-> l2_gas]

GasAdd(a, b) == GasNew(a.da_gas + b.da_gas, a.l2_gas + b.l2_gas)

tx_overhead == GasNew(FIXED_DA_GAS, FIXED_L2_GAS)

(* NoteHashContext::expose_to_public *)
expose_to_public(note_hash) == [value |-> note_hash.value, counter |-> 0]

RECURSIVE PushedFrom(_, _, _)
(* the elements of the array pushed onto one builder, in the order of the loop *)
PushedFrom(array, pushed, i) ==
    IF i > Len(array) THEN << >>
    ELSE (IF pushed[i] THEN << array[i] >> ELSE << >>) \o PushedFrom(array, pushed, i + 1)

(* the number of non-empty elements of the array that were pushed *)
NonEmptyPushed(array, pushed, empty) == Cardinality({ i \in DOMAIN array : pushed[i] /\ array[i] # empty })

(* PublicAccumulatedDataBuilder::empty().finish() *)
EmptyPublicAccumulatedData ==
    [ new_note_hashes |-> EmptyArray(EmptyNoteHash),
      new_nullifiers |-> EmptyArray(EmptyNullifier),
      new_l2_to_l1_msgs |-> EmptyArray(0),
      encrypted_logs_hashes |-> EmptyArray(EmptySideEffect),
      unencrypted_logs_hashes |-> EmptyArray(EmptySideEffect),
      encrypted_log_preimages_length |-> 0,
      unencrypted_log_preimages_length |-> 0,
      public_call_stack |-> EmptyArray(EmptyCallRequest),
      gas_used |-> GasNew(0, 0) ]

Below(array, min_revertible_side_effect_counter) == [i \in DOMAIN array |-> array[i].counter < min_revertible_side_effect_counter]

NotBelow(array, min_revertible_side_effect_counter) == [i \in DOMAIN array |-> ~(array[i].counter < min_revertible_side_effect_counter)]

split_gas_used_without_teardown(self, min_revertible_side_effect_counter, teardown_gas) ==
    LET DA_GAS_PER_FIELD == DA_BYTES_PER_FIELD * DA_GAS_PER_BYTE
        public_note_hashes == [i \in DOMAIN self.new_note_hashes |-> expose_to_public(self.new_note_hashes[i])]
    IN [ non_revertible |-> GasAdd(tx_overhead, GasNew(
             DA_GAS_PER_FIELD * NonEmptyPushed(public_note_hashes, Below(self.new_note_hashes, min_revertible_side_effect_counter), EmptyNoteHash)
             + DA_GAS_PER_FIELD * NonEmptyPushed(self.new_nullifiers, Below(self.new_nullifiers, min_revertible_side_effect_counter), EmptyNullifier), 0)),
         revertible |-> GasNew(
             DA_GAS_PER_FIELD * NonEmptyPushed(public_note_hashes, NotBelow(self.new_note_hashes, min_revertible_side_effect_counter), EmptyNoteHash)
             + DA_GAS_PER_FIELD * NonEmptyPushed(self.new_nullifiers, NotBelow(self.new_nullifiers, min_revertible_side_effect_counter), EmptyNullifier)
             + DA_GAS_PER_BYTE * (self.encrypted_log_preimages_length + self.unencrypted_log_preimages_length),
             0) ]

(* split_to_public, the gas accounting: gas_used of the two builders *)
split_gas_used(self, min_revertible_side_effect_counter, teardown_gas) ==
    LET DA_GAS_PER_FIELD == DA_BYTES_PER_FIELD * DA_GAS_PER_BYTE
        public_note_hashes == [i \in DOMAIN self.new_note_hashes |-> expose_to_public(self.new_note_hashes[i])]
    IN [ non_revertible |-> GasAdd(tx_overhead, GasNew(
             DA_GAS_PER_FIELD * NonEmptyPushed(public_note_hashes, Below(self.new_note_hashes, min_revertible_side_effect_counter), EmptyNoteHash)
             + DA_GAS_PER_FIELD * NonEmptyPushed(self.new_nullifiers, Below(self.new_nullifiers, min_revertible_side_effect_counter), EmptyNullifier), 0)),
         revertible |-> GasNew(
             teardown_gas.da_gas
             + DA_GAS_PER_FIELD * NonEmptyPushed(public_note_hashes, NotBelow(self.new_note_hashes, min_revertible_side_effect_counter), EmptyNoteHash)
             + DA_GAS_PER_FIELD * NonEmptyPushed(self.new_nullifiers, NotBelow(self.new_nullifiers, min_revertible_side_effect_counter), EmptyNullifier)
             + DA_GAS_PER_BYTE * (self.encrypted_log_preimages_length + self.unencrypted_log_preimages_length),
             teardown_gas.l2_gas) ]

(* split_to_public: [non_revertible, revertible] *)
(* BoundedVec: the storage of a vector of capacity max_len after the pushes of seq *)
BoundedVecStorage(seq, empty, max_len) == [i \in 1..max_len |-> IF i <= Len(seq) THEN seq[i] ELSE empty]

split_to_public(self, min_revertible_side_effect_counter, teardown_gas) ==
    LET gas_used == split_gas_used(self, min_revertible_side_effect_counter, teardown_gas)
        public_note_hashes == [i \in DOMAIN self.new_note_hashes |-> expose_to_public(self.new_note_hashes[i])]
        note_hash_below == [i \in DOMAIN self.new_note_hashes |-> self.new_note_hashes[i].counter < min_revertible_side_effect_counter]
        nullifier_below == [i \in DOMAIN self.new_nullifiers |-> self.new_nullifiers[i].counter < min_revertible_side_effect_counter]
        call_below == [i \in DOMAIN self.public_call_stack |-> self.public_call_stack[i].start_side_effect_counter < min_revertible_side_effect_counter]
        encrypted_below == [i \in DOMAIN self.encrypted_logs_hashes |-> self.encrypted_logs_hashes[i].counter < min_revertible_side_effect_counter]
        unencrypted_below == [i \in DOMAIN self.unencrypted_logs_hashes |-> self.unencrypted_logs_hashes[i].counter < min_revertible_side_effect_counter]
        Not(below) == [i \in DOMAIN below |-> ~below[i]]
    IN [ non_revertible |->
           [ EmptyPublicAccumulatedData EXCEPT
               !.new_note_hashes = BoundedVecStorage(PushedFrom(public_note_hashes, note_hash_below, 1), EmptyNoteHash, Len(self.new_note_hashes)),
               !.new_nullifiers = BoundedVecStorage(PushedFrom(self.new_nullifiers, nullifier_below, 1), EmptyNullifier, Len(self.new_nullifiers)),
               !.public_call_stack = BoundedVecStorage(PushedFrom(self.public_call_stack, call_below, 1), EmptyCallRequest, Len(self.public_call_stack)),
               !.encrypted_logs_hashes = BoundedVecStorage(PushedFrom(self.encrypted_logs_hashes, encrypted_below, 1), EmptySideEffect, Len(self.encrypted_logs_hashes)),
               !.unencrypted_logs_hashes = BoundedVecStorage(PushedFrom(self.unencrypted_logs_hashes, unencrypted_below, 1), EmptySideEffect, Len(self.unencrypted_logs_hashes)),
               !.gas_used = gas_used.non_revertible ],
         revertible |->
           [ EmptyPublicAccumulatedData EXCEPT
               !.new_note_hashes = BoundedVecStorage(PushedFrom(public_note_hashes, Not(note_hash_below), 1), EmptyNoteHash, Len(self.new_note_hashes)),
               !.new_nullifiers = BoundedVecStorage(PushedFrom(self.new_nullifiers, Not(nullifier_below), 1), EmptyNullifier, Len(self.new_nullifiers)),
               !.public_call_stack = BoundedVecStorage(PushedFrom(self.public_call_stack, Not(call_below), 1), EmptyCallRequest, Len(self.public_call_stack)),
               !.encrypted_logs_hashes = BoundedVecStorage(PushedFrom(self.encrypted_logs_hashes, Not(encrypted_below), 1), EmptySideEffect, Len(self.encrypted_logs_hashes)),
               !.unencrypted_logs_hashes = BoundedVecStorage(PushedFrom(self.unencrypted_logs_hashes, Not(unencrypted_below), 1), EmptySideEffect, Len(self.unencrypted_logs_hashes)),
               !.new_l2_to_l1_msgs = self.new_l2_to_l1_msgs,
               !.encrypted_log_preimages_length = self.encrypted_log_preimages_length,
               !.unencrypted_log_preimages_length = self.unencrypted_log_preimages_length,
               !.gas_used = gas_used.revertible ] ]

(* counters of the model's side effects are below AboveAllCounters *)
AboveAllCounters == 7

MinRevertibleCounters == {0, 2, AboveAllCounters}

TeardownGas == {GasNew(42, 17), GasNew(0, 3)}

EarlyCallRequest == [EmptyCallRequest EXCEPT !.hash = SomeHash, !.caller_contract_address = 1, !.start_side_effect_counter = 1]
LateCallRequest == [EmptyCallRequest EXCEPT !.hash = OtherHash, !.caller_contract_address = 1, !.start_side_effect_counter = 3]

OtherLogHash == [value |-> 4, counter |-> 2]

LogLengths == { [encrypted |-> 0, unencrypted |-> 0], [encrypted |-> 4, unencrypted |-> 8] }

InitSplit ==
    /\ \E new_note_hashes \in PaddedArraysOf({EmptyNoteHashContext, EarlierNoteHash, SettledNoteHash}, EmptyNoteHashContext),
          new_nullifiers \in PaddedArraysOf({EmptyNullifier, FirstNullifier, OtherNullifier}, EmptyNullifier),
          public_call_stack \in PaddedArraysOf({EmptyCallRequest, EarlyCallRequest, LateCallRequest}, EmptyCallRequest),
          encrypted_logs_hashes \in {EmptyArray(EmptySideEffect), FirstSlot(SomeLogHash, EmptySideEffect)},
          unencrypted_logs_hashes \in {EmptyArray(EmptySideEffect), FirstSlot(OtherLogHash, EmptySideEffect)},
          new_l2_to_l1_msgs \in {EmptyArray(0), FirstSlot(SomeMessage, 0)},
          lengths \in LogLengths,
          min_revertible_side_effect_counter \in MinRevertibleCounters,
          teardown_gas \in TeardownGas :
         kernel = [ pc |-> "split",
                    end |-> [ EmptyAccumulatedData EXCEPT
                                !.new_note_hashes = new_note_hashes,
                                !.new_nullifiers = new_nullifiers,
                                !.public_call_stack = public_call_stack,
                                !.encrypted_logs_hashes = encrypted_logs_hashes,
                                !.unencrypted_logs_hashes = unencrypted_logs_hashes,
                                !.new_l2_to_l1_msgs = new_l2_to_l1_msgs,
                                !.encrypted_log_preimages_length = lengths.encrypted,
                                !.unencrypted_log_preimages_length = lengths.unencrypted ],
                    min_revertible_side_effect_counter |-> min_revertible_side_effect_counter,
                    teardown_gas |-> teardown_gas,
                    split |-> None ]
    /\ frames = << >>
    /\ status = "running"
    /\ emitted = << >>
    /\ windows = << >>
    /\ public_inputs = None
    /\ last_call = None

SplitToPublic ==
    /\ kernel.pc = "split"
    /\ kernel' = [ kernel EXCEPT
                     !.split = split_to_public(kernel.end, kernel.min_revertible_side_effect_counter, kernel.teardown_gas),
                     !.pc = "done" ]
    /\ KernelUnchanged

NextSplit == SplitToPublic

SpecSplit == InitSplit /\ [][NextSplit]_vars

BelowCut(side_effect) == side_effect.counter < kernel.min_revertible_side_effect_counter

NonEmptySideEffect(side_effect) == side_effect \notin {EmptyNoteHashContext, EmptyNullifier, EmptySideEffect}

NonRevertibleSideEffect(side_effect) == NonEmptySideEffect(side_effect) /\ BelowCut(side_effect)

RevertibleSideEffect(side_effect) == NonEmptySideEffect(side_effect) /\ ~BelowCut(side_effect)

NonRevertibleCall(request) == request # EmptyCallRequest /\ request.start_side_effect_counter < kernel.min_revertible_side_effect_counter

RevertibleCall(request) == request # EmptyCallRequest /\ ~(request.start_side_effect_counter < kernel.min_revertible_side_effect_counter)

ExposedToPublic(note_hashes) == [i \in DOMAIN note_hashes |-> expose_to_public(note_hashes[i])]

(* the arrays whose elements carry a counter are partitioned at the cut, in order *)
CounterArraysPartitioned ==
    LET non_revertible == kernel.split.non_revertible
        revertible == kernel.split.revertible
    IN /\ non_revertible.new_note_hashes = PadRight(ExposedToPublic(SelectSeq(kernel.end.new_note_hashes, NonRevertibleSideEffect)), EmptyNoteHash)
       /\ revertible.new_note_hashes = PadRight(ExposedToPublic(SelectSeq(kernel.end.new_note_hashes, RevertibleSideEffect)), EmptyNoteHash)
       /\ non_revertible.new_nullifiers = PadRight(SelectSeq(kernel.end.new_nullifiers, NonRevertibleSideEffect), EmptyNullifier)
       /\ revertible.new_nullifiers = PadRight(SelectSeq(kernel.end.new_nullifiers, RevertibleSideEffect), EmptyNullifier)
       /\ non_revertible.public_call_stack = PadRight(SelectSeq(kernel.end.public_call_stack, NonRevertibleCall), EmptyCallRequest)
       /\ revertible.public_call_stack = PadRight(SelectSeq(kernel.end.public_call_stack, RevertibleCall), EmptyCallRequest)
       /\ non_revertible.encrypted_logs_hashes = PadRight(SelectSeq(kernel.end.encrypted_logs_hashes, NonRevertibleSideEffect), EmptySideEffect)
       /\ revertible.encrypted_logs_hashes = PadRight(SelectSeq(kernel.end.encrypted_logs_hashes, RevertibleSideEffect), EmptySideEffect)
       /\ non_revertible.unencrypted_logs_hashes = PadRight(SelectSeq(kernel.end.unencrypted_logs_hashes, NonRevertibleSideEffect), EmptySideEffect)
       /\ revertible.unencrypted_logs_hashes = PadRight(SelectSeq(kernel.end.unencrypted_logs_hashes, RevertibleSideEffect), EmptySideEffect)

(* the L2-to-L1 messages are on the side of the cut they were emitted on:   *)
(* all non-revertible when the cut is above every counter of the            *)
(* transaction, all revertible when the cut is 0                            *)
MessagesPartitioned ==
    /\ kernel.min_revertible_side_effect_counter = AboveAllCounters =>
           /\ kernel.split.non_revertible.new_l2_to_l1_msgs = kernel.end.new_l2_to_l1_msgs
           /\ kernel.split.revertible.new_l2_to_l1_msgs = EmptyArray(0)
    /\ kernel.min_revertible_side_effect_counter = 0 =>
           /\ kernel.split.revertible.new_l2_to_l1_msgs = kernel.end.new_l2_to_l1_msgs
           /\ kernel.split.non_revertible.new_l2_to_l1_msgs = EmptyArray(0)

(* C22: split_to_public partitions every side-effect array (note hashes,    *)
(* nullifiers, public call requests, encrypted and unencrypted log hashes,  *)
(* L2-to-L1 messages) at min_revertible_side_effect_counter: the non-empty  *)
(* elements below it are in the non-revertible output and only there, the   *)
(* others in the revertible output and only there, each half in the order   *)
(* of the input.                                                            *)
C22_SplitPartitionsByCounter ==
    kernel.pc = "done" => (CounterArraysPartitioned /\ MessagesPartitioned)

NonEmptyCount(array, empty) == Cardinality({ i \in DOMAIN array : array[i] # empty })

(* C30: after split_to_public the revertible gas_used is the teardown gas   *)
(* plus DA_BYTES_PER_FIELD * DA_GAS_PER_BYTE for each non-empty revertible  *)
(* note hash and nullifier plus DA_GAS_PER_BYTE times the two log preimage  *)
(* lengths, and the non-revertible gas_used is the transaction overhead     *)
(* plus the same per-field cost for each non-empty non-revertible note hash *)
(* and nullifier; neither is below the teardown gas, respectively the       *)
(* overhead.                                                                *)
C30_TeardownPrechargedToRevertible ==
    kernel.pc = "done" =>
        LET non_revertible == kernel.split.non_revertible
            revertible == kernel.split.revertible
            FieldsOf(half) == NonEmptyCount(half.new_note_hashes, EmptyNoteHash) + NonEmptyCount(half.new_nullifiers, EmptyNullifier)
        IN /\ revertible.gas_used.da_gas =
                  kernel.teardown_gas.da_gas
                  + DA_BYTES_PER_FIELD * DA_GAS_PER_BYTE * FieldsOf(revertible)
                  + DA_GAS_PER_BYTE * (kernel.end.encrypted_log_preimages_length + kernel.end.unencrypted_log_preimages_length)
           /\ revertible.gas_used.l2_gas = kernel.teardown_gas.l2_gas
           /\ non_revertible.gas_used.da_gas = FIXED_DA_GAS + DA_BYTES_PER_FIELD * DA_GAS_PER_BYTE * FieldsOf(non_revertible)
           /\ non_revertible.gas_used.l2_gas = FIXED_L2_GAS
           /\ revertible.gas_used.da_gas >= kernel.teardown_gas.da_gas
           /\ revertible.gas_used.l2_gas >= kernel.teardown_gas.l2_gas
           /\ non_revertible.gas_used.da_gas >= FIXED_DA_GAS

(* a split with teardown gas, logs, and a note hash and a nullifier on each side of the cut *)
C30_Witness ==
    /\ kernel.pc = "done"
    /\ kernel.teardown_gas = GasNew(42, 17)
    /\ kernel.end.encrypted_log_preimages_length = 4
    /\ kernel.split.non_revertible.new_note_hashes[1] # EmptyNoteHash
    /\ kernel.split.revertible.new_note_hashes[1] # EmptyNoteHash
    /\ kernel.split.non_revertible.new_nullifiers[1] # EmptyNullifier
    /\ kernel.split.revertible.new_nullifiers[1] # EmptyNullifier

(***************************************************************************)
(* SpecGas: a PrivateAccumulatedDataBuilder filled by pushes, then the     *)
(* tail's finish() or finish_to_public() with its gas check.               *)
(***************************************************************************)

MAX_NEW_NOTE_HASHES_PER_TX == 3
MAX_NEW_NULLIFIERS_PER_TX == 2
MAX_NEW_L2_TO_L1_MSGS_PER_TX == 1

(* `length as u32`: exact for the lengths of the model, all far below 2^32 *)
as_u32(length) == length

to_metered_gas_used_without_messages(self) ==
    LET metered_bytes ==
            DA_BYTES_PER_FIELD * Cardinality({ i \in DOMAIN self.new_note_hashes : self.new_note_hashes[i] # EmptyNoteHashContext })
            + DA_BYTES_PER_FIELD * Cardinality({ i \in DOMAIN self.new_nullifiers : self.new_nullifiers[i] # EmptyNullifier })
            + as_u32(self.encrypted_log_preimages_length)
            + as_u32(self.unencrypted_log_preimages_length)
    IN GasNew(DA_GAS_PER_BYTE * metered_bytes, 0)

(* PrivateAccumulatedDataBuilder::to_metered_gas_used *)
to_metered_gas_used(self) ==
    LET metered_bytes ==
            DA_BYTES_PER_FIELD * Cardinality({ i \in DOMAIN self.new_note_hashes : self.new_note_hashes[i] # EmptyNoteHashContext })
            + DA_BYTES_PER_FIELD * Cardinality({ i \in DOMAIN self.new_nullifiers : self.new_nullifiers[i] # EmptyNullifier })
            + DA_BYTES_PER_FIELD * Cardinality({ i \in DOMAIN self.new_l2_to_l1_msgs : self.new_l2_to_l1_msgs[i] # 0 })
            + as_u32(self.encrypted_log_preimages_length)
            + as_u32(self.unencrypted_log_preimages_length)
    IN GasNew(DA_GAS_PER_BYTE * metered_bytes, 0)

(* the hash of the log hashes of the transaction: an injective fold *)
RECURSIVE compute_tx_logs_hash_from(_, _)
compute_tx_logs_hash_from(logs_hashes, i) ==
    IF i > Len(logs_hashes) THEN 0
    ELSE logs_hashes[i].value + 10 * compute_tx_logs_hash_from(logs_hashes, i + 1)

compute_tx_logs_hash(logs_hashes) == compute_tx_logs_hash_from(logs_hashes, 1)

(* PrivateAccumulatedDataBuilder::to_combined *)
to_combined(self, teardown_gas) ==
    [ new_note_hashes |-> [i \in DOMAIN self.new_note_hashes |-> self.new_note_hashes[i].value],
      new_nullifiers |-> [i \in DOMAIN self.new_nullifiers |-> self.new_nullifiers[i].value],
      new_l2_to_l1_msgs |-> self.new_l2_to_l1_msgs,
      encrypted_logs_hash |-> compute_tx_logs_hash(self.encrypted_logs_hashes),
      unencrypted_logs_hash |-> compute_tx_logs_hash(self.unencrypted_logs_hashes),
      encrypted_log_preimages_length |-> self.encrypted_log_preimages_length,
      unencrypted_log_preimages_length |-> self.unencrypted_log_preimages_length,
      gas_used |-> GasAdd(GasAdd(to_metered_gas_used(self), tx_overhead), teardown_gas) ]

within_without_l2_gas(self, limits) == self.da_gas <= limits.da_gas

(* Gas::within *)
within(self, limits) == self.da_gas <= limits.da_gas /\ self.l2_gas <= limits.l2_gas

KernelCircuitPublicInputsComposer_finish_emitting_on_failure(end, gas_settings) ==
    LET teardown_gas == gas_settings.teardown_gas_limits
        inputs == [ end |-> to_combined(end, teardown_gas) ]
        limits == gas_settings.gas_limits
    IN [ ok |-> within(inputs.end.gas_used, limits), inputs |-> inputs ]

(* KernelCircuitPublicInputsComposer::finish: [ok, inputs], no inputs when the assertion fails *)
KernelCircuitPublicInputsComposer_finish(end, gas_settings) ==
    LET teardown_gas == gas_settings.teardown_gas_limits
        inputs == [ end |-> to_combined(end, teardown_gas) ]
        limits == gas_settings.gas_limits
        ok == within(inputs.end.gas_used, limits)
    IN [ ok |-> ok, inputs |-> IF ok THEN inputs ELSE None ]

(* KernelCircuitPublicInputsComposer::finish_to_public: [ok, inputs] *)
KernelCircuitPublicInputsComposer_finish_to_public(end, gas_settings, min_revertible_side_effect_counter) ==
    LET teardown_gas == gas_settings.teardown_gas_limits
        split == split_to_public(end, min_revertible_side_effect_counter, teardown_gas)
        inputs == [ end |-> split.revertible, end_non_revertible |-> split.non_revertible ]
        limits == gas_settings.gas_limits
        total_gas_used == GasAdd(inputs.end.gas_used, inputs.end_non_revertible.gas_used)
        ok == within(total_gas_used, limits)
    IN [ ok |-> ok, inputs |-> IF ok THEN inputs ELSE None ]

DA_GAS_PER_FIELD == DA_BYTES_PER_FIELD * DA_GAS_PER_BYTE

(* teardown gas limits of the transaction: two that differ by one unit in each dimension *)
TeardownGasLimits == { GasNew(42, 17), GasNew(43, 18) }

(* gas limits of the transaction: room for four, or for five, fields on top of overhead and teardown *)
GasLimits == { GasNew(FIXED_DA_GAS + 42 + 4 * DA_GAS_PER_FIELD, FIXED_L2_GAS + 18), GasNew(FIXED_DA_GAS + 42 + 5 * DA_GAS_PER_FIELD, FIXED_L2_GAS + 17) }

GasSettings == { [teardown_gas_limits |-> teardown_gas, gas_limits |-> limits] : teardown_gas \in TeardownGasLimits, limits \in GasLimits }

LaterNoteHash == [value |-> 5, counter |-> 4, nullifier_counter |-> 0]

InitGas ==
    /\ kernel = [ pc |-> "build",
                  end |-> [ EmptyAccumulatedData EXCEPT
                              !.new_note_hashes = [i \in 1..MAX_NEW_NOTE_HASHES_PER_TX |-> EmptyNoteHashContext],
                              !.new_nullifiers = [i \in 1..MAX_NEW_NULLIFIERS_PER_TX |-> EmptyNullifier],
                              !.new_l2_to_l1_msgs = [i \in 1..MAX_NEW_L2_TO_L1_MSGS_PER_TX |-> 0] ],
                  len |-> [ new_note_hashes |-> 0, new_nullifiers |-> 0, new_l2_to_l1_msgs |-> 0 ],
                  tail |-> "none",
                  gas_settings |-> None,
                  min_revertible_side_effect_counter |-> 0,
                  inputs |-> None ]
    /\ frames = << >>
    /\ status = "running"
    /\ emitted = << >>
    /\ windows = << >>
    /\ public_inputs = None
    /\ last_call = None

(* BoundedVec::push on a vector of the builder: a full vector fails the circuit *)
BuilderPush(field, elem) ==
    IF kernel.len[field] >= Len(kernel.end[field])
    THEN kernel' = [ kernel EXCEPT !.pc = "rejected" ]
    ELSE kernel' = [ kernel EXCEPT
                       !.end[field][kernel.len[field] + 1] = elem,
                       !.len[field] = kernel.len[field] + 1 ]

BuilderPushNoteHash ==
    /\ kernel.pc = "build"
    /\ \E note_hash \in {EmptyNoteHashContext, LaterNoteHash} : BuilderPush("new_note_hashes", note_hash)
    /\ KernelUnchanged

BuilderPushNullifier ==
    /\ kernel.pc = "build"
    /\ \E nullifier \in {EmptyNullifier, FirstNullifier} : BuilderPush("new_nullifiers", nullifier)
    /\ KernelUnchanged

BuilderPushL2ToL1Msg ==
    /\ kernel.pc = "build"
    /\ \E message \in {0, SomeMessage} : BuilderPush("new_l2_to_l1_msgs", message)
    /\ KernelUnchanged

(* the log preimage lengths of the transaction, here set once *)
BuilderSetLogPreimagesLength ==
    /\ kernel.pc = "build"
    /\ kernel.end.encrypted_log_preimages_length = 0
    /\ kernel.end.unencrypted_log_preimages_length = 0
    /\ kernel' = [ kernel EXCEPT !.end.encrypted_log_preimages_length = 4, !.end.unencrypted_log_preimages_length = 8 ]
    /\ KernelUnchanged

FinishTail ==
    /\ kernel.pc = "build"
    /\ \E gas_settings \in GasSettings :
         LET result == KernelCircuitPublicInputsComposer_finish(kernel.end, gas_settings)
         IN kernel' = [ kernel EXCEPT
                          !.tail = "finish",
                          !.gas_settings = gas_settings,
                          !.pc = IF result.ok THEN "finished" ELSE "rejected",
                          !.inputs = result.inputs ]
    /\ KernelUnchanged

FinishToPublic ==
    /\ kernel.pc = "build"
    /\ \E gas_settings \in GasSettings, min_revertible_side_effect_counter \in {2, AboveAllCounters} :
         LET result == KernelCircuitPublicInputsComposer_finish_to_public(kernel.end, gas_settings, min_revertible_side_effect_counter)
         IN kernel' = [ kernel EXCEPT
                          !.tail = "finish_to_public",
                          !.gas_settings = gas_settings,
                          !.min_revertible_side_effect_counter = min_revertible_side_effect_counter,
                          !.pc = IF result.ok THEN "finished_to_public" ELSE "rejected",
                          !.inputs = result.inputs ]
    /\ KernelUnchanged

NextGas ==
    \/ BuilderPushNoteHash
    \/ BuilderPushNullifier
    \/ BuilderPushL2ToL1Msg
    \/ BuilderSetLogPreimagesLength
    \/ FinishTail
    \/ FinishToPublic

SpecGas == InitGas /\ [][NextGas]_vars

(* C24: a push of a non-empty note hash, nullifier or L2-to-L1 message     *)
(* onto the accumulated data raises the metered DA gas by exactly           *)
(* DA_BYTES_PER_FIELD * DA_GAS_PER_BYTE, a push of an empty entry leaves it *)
(* as it was, and no push ever lowers the metered gas.                      *)
C24_GasMonotonicity ==
    [][ \A field \in {"new_note_hashes", "new_nullifiers", "new_l2_to_l1_msgs"} :
          (kernel.pc = "build" /\ kernel'.pc = "build" /\ kernel'.len[field] = kernel.len[field] + 1) =>
              LET pushed == kernel'.end[field][kernel'.len[field]]
                  empty == kernel.end[field][kernel'.len[field]]
                  before == to_metered_gas_used(kernel.end)
                  after == to_metered_gas_used(kernel'.end)
              IN /\ after.da_gas >= before.da_gas
                 /\ after.l2_gas >= before.l2_gas
                 /\ after.da_gas = before.da_gas + (IF pushed # empty THEN DA_BYTES_PER_FIELD * DA_GAS_PER_BYTE ELSE 0) ]_vars

(* a non-empty entry of each kind was pushed, the note hash after an empty one *)
C24_Witness ==
    /\ kernel.pc = "build"
    /\ kernel.len.new_note_hashes = 2
    /\ kernel.end.new_note_hashes[1] = EmptyNoteHashContext
    /\ kernel.end.new_note_hashes[2] = LaterNoteHash
    /\ kernel.end.new_nullifiers[1] = FirstNullifier
    /\ kernel.end.new_l2_to_l1_msgs[1] = SomeMessage
    /\ to_metered_gas_used(kernel.end).da_gas = 3 * DA_BYTES_PER_FIELD * DA_GAS_PER_BYTE

(* the total gas of a fully-private tail, recounted from the builder *)
TailTotalGas(end, teardown_gas) ==
    GasNew(FIXED_DA_GAS + teardown_gas.da_gas
           + DA_BYTES_PER_FIELD * DA_GAS_PER_BYTE * (NonEmptyCount(end.new_note_hashes, EmptyNoteHashContext) + NonEmptyCount(end.new_nullifiers, EmptyNullifier) + NonEmptyCount(end.new_l2_to_l1_msgs, 0))
           + DA_GAS_PER_BYTE * (end.encrypted_log_preimages_length + end.unencrypted_log_preimages_length),
           FIXED_L2_GAS + teardown_gas.l2_gas)

(* the gas_used of the two halves a private-to-public tail gives, summed *)
PublicTailTotalGas(end, teardown_gas, min_revertible_side_effect_counter) ==
    LET gas_used == split_gas_used(end, min_revertible_side_effect_counter, teardown_gas)
    IN GasNew(gas_used.revertible.da_gas + gas_used.non_revertible.da_gas, gas_used.revertible.l2_gas + gas_used.non_revertible.l2_gas)

(* C23: finish() and finish_to_public() emit public inputs exactly when    *)
(* the total gas used (metered side-effect gas plus transaction overhead   *)
(* plus teardown gas; for the public tail the sum of the gas_used of the   *)
(* revertible and non-revertible halves) is at most the gas limits in the  *)
(* DA and in the L2 dimension: a total equal to the limit passes, a total  *)
(* one unit over in either dimension is rejected and nothing is emitted.   *)
C23_GasWithinLimits ==
    kernel.tail # "none" =>
        LET limits == kernel.gas_settings.gas_limits
            teardown_gas == kernel.gas_settings.teardown_gas_limits
            total == IF kernel.tail = "finish"
                     THEN TailTotalGas(kernel.end, teardown_gas)
                     ELSE PublicTailTotalGas(kernel.end, teardown_gas, kernel.min_revertible_side_effect_counter)
            emits == total.da_gas <= limits.da_gas /\ total.l2_gas <= limits.l2_gas
        IN /\ kernel.pc \in {"finished", "finished_to_public", "rejected"}
           /\ (kernel.pc = "rejected") = ~emits
           /\ (kernel.pc = "rejected") = (kernel.inputs = None)
           /\ kernel.pc = "finished" => (kernel.tail = "finish" /\ kernel.inputs.end.gas_used = total)
           /\ kernel.pc = "finished_to_public" =>
                  /\ kernel.tail = "finish_to_public"
                  /\ GasAdd(kernel.inputs.end.gas_used, kernel.inputs.end_non_revertible.gas_used) = total

(* three note hashes and two nullifiers, no logs: one field cost over the DA limit, rejected *)
C23_Witness ==
    /\ kernel.pc = "rejected"
    /\ kernel.tail = "finish"
    /\ NonEmptyCount(kernel.end.new_note_hashes, EmptyNoteHashContext) = 3
    /\ NonEmptyCount(kernel.end.new_nullifiers, EmptyNullifier) = 2
    /\ kernel.end.encrypted_log_preimages_length = 0
    /\ kernel.end.new_l2_to_l1_msgs[1] = 0
    /\ TailTotalGas(kernel.end, kernel.gas_settings.teardown_gas_limits).da_gas = kernel.gas_settings.gas_limits.da_gas + DA_BYTES_PER_FIELD * DA_GAS_PER_BYTE
    /\ TailTotalGas(kernel.end, kernel.gas_settings.teardown_gas_limits).l2_gas <= kernel.gas_settings.gas_limits.l2_gas

C23_EqualPasses ==
    /\ kernel.pc = "finished"
    /\ kernel.inputs.end.gas_used = kernel.gas_settings.gas_limits

C23_PublicEqualPasses ==
    /\ kernel.pc = "finished_to_public"
    /\ GasAdd(kernel.inputs.end.gas_used, kernel.inputs.end_non_revertible.gas_used) = kernel.gas_settings.gas_limits

C23_OneOverFails ==
    /\ kernel.pc = "rejected"
    /\ kernel.tail = "finish"
    /\ TailTotalGas(kernel.end, kernel.gas_settings.teardown_gas_limits).da_gas = kernel.gas_settings.gas_limits.da_gas + 1

(***************************************************************************)
(* The tail of SpecCompose: after compose(), finish() for the fully        *)
(* private tail, or the rest of compose_public() and finish_to_public().   *)
(***************************************************************************)

propagate_sorted_public_call_requests_in_reverse(end, accumulated_data_public_call_stack) ==
    [ end EXCEPT !.public_call_stack = [i \in DOMAIN accumulated_data_public_call_stack |-> accumulated_data_public_call_stack[Len(accumulated_data_public_call_stack) + 1 - i]] ]

(* KernelCircuitPublicInputsComposer::propagate_sorted_public_call_requests *)
propagate_sorted_public_call_requests(end, accumulated_data_public_call_stack) ==
    [ end EXCEPT !.public_call_stack = array_to_bounded_vec(accumulated_data_public_call_stack) ]

(* public call stacks of the previous kernel: none, one, two in counter order, two against it *)
PublicCallStacks ==
    { EmptyArray(EmptyCallRequest),
      FirstSlot(EarlyCallRequest, EmptyCallRequest),
      PadRight(<< EarlyCallRequest, LateCallRequest >>, EmptyCallRequest),
      PadRight(<< LateCallRequest, EarlyCallRequest >>, EmptyCallRequest) }

(* gas settings of the composed transaction: limits with room for two fields, or for five *)
TailGasSettings ==
    { [ teardown_gas_limits |-> GasNew(42, 17), gas_limits |-> GasNew(FIXED_DA_GAS + 42 + fields * DA_GAS_PER_FIELD, FIXED_L2_GAS + 17) ] : fields \in {2, 5} }

(* compose_public(), after compose() *)
PropagateSortedPublicCallRequests ==
    /\ kernel.pc = "composed"
    /\ \E public_call_stack \in PublicCallStacks :
         kernel' = [ kernel EXCEPT
                       !.previous_kernel.public_call_stack = public_call_stack,
                       !.end = propagate_sorted_public_call_requests(kernel.end, public_call_stack),
                       !.pc = "composed_public" ]
    /\ KernelUnchanged

(* finish() after compose(); the public call stack of the previous kernel  *)
(* is an input that neither of them reads                                  *)
ComposeFinish ==
    /\ kernel.pc = "composed"
    /\ \E public_call_stack \in PublicCallStacks, gas_settings \in TailGasSettings :
         LET result == KernelCircuitPublicInputsComposer_finish(kernel.end, gas_settings)
         IN kernel' = [ kernel EXCEPT
                          !.previous_kernel.public_call_stack = public_call_stack,
                          !.tail = "finish",
                          !.gas_settings = gas_settings,
                          !.pc = IF result.ok THEN "finished" ELSE "rejected",
                          !.inputs = result.inputs ]
    /\ KernelUnchanged

(* finish_to_public() after compose_public() *)
ComposeFinishToPublic ==
    /\ kernel.pc = "composed_public"
    /\ \E gas_settings \in TailGasSettings, min_revertible_side_effect_counter \in {2, AboveAllCounters} :
         LET result == KernelCircuitPublicInputsComposer_finish_to_public(kernel.end, gas_settings, min_revertible_side_effect_counter)
         IN kernel' = [ kernel EXCEPT
                          !.tail = "finish_to_public",
                          !.gas_settings = gas_settings,
                          !.min_revertible_side_effect_counter = min_revertible_side_effect_counter,
                          !.pc = IF result.ok THEN "finished_to_public" ELSE "rejected",
                          !.inputs = result.inputs ]
    /\ KernelUnchanged

NextCompose ==
    \/ ComposeBegin
    \/ PropagateSortedNoteHashes
    \/ PropagateSortedNullifiers
    \/ PropagateSortedEncryptedLogs
    \/ PropagateSortedUnencryptedLogs
    \/ SquashTransientData
    \/ SiloValues
    \/ PropagateSortedPublicCallRequests
    \/ ComposeFinish
    \/ ComposeFinishToPublic

SpecCompose == InitCompose /\ [][NextCompose]_vars

(* C25: the private-to-public tail (compose_public, then                   *)
(* finish_to_public) carries the public call stack of the previous kernel  *)
(* forward unchanged: the public call stack of each output half is the     *)
(* requests of the previous kernel's stack on that side of                 *)
(* min_revertible_side_effect_counter, with their fields and in the order  *)
(* they have in that stack, and every request of the stack is in the two   *)
(* halves together as many times as in the stack.                          *)
C25_PublicCallStackCarriedForward ==
    kernel.pc = "finished_to_public" =>
        LET stack == kernel.previous_kernel.public_call_stack
            non_revertible == kernel.inputs.end_non_revertible.public_call_stack
            revertible == kernel.inputs.end.public_call_stack
        IN /\ non_revertible = PadRight(SelectSeq(stack, NonRevertibleCall), EmptyCallRequest)
           /\ revertible = PadRight(SelectSeq(stack, RevertibleCall), EmptyCallRequest)
           /\ \A i \in DOMAIN stack :
                  stack[i] # EmptyCallRequest =>
                      Occurrences(non_revertible, stack[i]) + Occurrences(revertible, stack[i]) = Occurrences(stack, stack[i])
           /\ \A i \in DOMAIN stack :
                  /\ non_revertible[i] # EmptyCallRequest => Occurrences(stack, non_revertible[i]) > 0
                  /\ revertible[i] # EmptyCallRequest => Occurrences(stack, revertible[i]) > 0

(* a stack of two requests, both below the cut: carried forward in the same order *)
C25_Witness ==
    /\ kernel.pc = "finished_to_public"
    /\ kernel.min_revertible_side_effect_counter = AboveAllCounters
    /\ kernel.previous_kernel.public_call_stack[1] = EarlyCallRequest
    /\ kernel.previous_kernel.public_call_stack[2] = LateCallRequest
    /\ kernel.inputs.end_non_revertible.public_call_stack[1] = EarlyCallRequest
    /\ kernel.inputs.end_non_revertible.public_call_stack[2] = LateCallRequest

(* C26: the fully-private tail (compose, then finish) emits public inputs  *)
(* only if the public call stack of the previous kernel is empty.          *)
C26_FullyPrivateTailHasNoPublicCalls ==
    kernel.pc = "finished" => array_length(kernel.previous_kernel.public_call_stack, EmptyCallRequest) = 0

(* the total gas of the tail that was run, recounted from the composer *)
ComposedTotalGas ==
    IF kernel.tail = "finish"
    THEN TailTotalGas(kernel.end, kernel.gas_settings.teardown_gas_limits)
    ELSE PublicTailTotalGas(kernel.end, kernel.gas_settings.teardown_gas_limits, kernel.min_revertible_side_effect_counter)

(* every check of compose() and of the tail holds *)
AllChecksPassed ==
    /\ array_length(kernel.previous_kernel.private_call_stack, EmptyCallRequest) = 0
    /\ \A array \in SortedArrays : kernel.sorted[array.field] = ReferenceSort(kernel.previous_kernel[array.field], array.empty)
    /\ kernel.note_hashes = SquashedNoteHashes
    /\ kernel.nullifiers = SquashedNullifiers
    /\ \A i \in DOMAIN kernel.note_hashes : kernel.note_hashes[i].nullifier_counter = 0
    /\ \A i \in DOMAIN kernel.nullifiers : kernel.nullifiers[i].note_hash = 0
    /\ kernel.nullifiers[1].value # 0
    /\ ComposedTotalGas.da_gas <= kernel.gas_settings.gas_limits.da_gas
    /\ ComposedTotalGas.l2_gas <= kernel.gas_settings.gas_limits.l2_gas

ComposeEmitted == kernel.pc \in {"finished", "finished_to_public"}

(* C27: composition is all-or-nothing: public inputs exist only in a       *)
(* Finished state and then every check has passed (empty private call      *)
(* stack, sort integrity, squash verification, no dangling transient, non  *)
(* zero first nullifier, gas limit); a run ends Finished or Rejected and   *)
(* not elsewhere; Rejected is terminal and carries no public inputs;       *)
(* Finished is never left for Rejected.                                    *)
C27_AllOrNothing ==
    /\ [](kernel.inputs # None => ComposeEmitted)
    /\ [](ComposeEmitted => (kernel.inputs # None /\ AllChecksPassed))
    /\ []((~ENABLED NextCompose) => (ComposeEmitted \/ kernel.pc = "rejected"))
    /\ [][kernel.pc = "rejected" => (kernel'.pc = "rejected" /\ kernel'.inputs = None)]_vars
    /\ [][ComposeEmitted => kernel'.pc = kernel.pc]_vars

(* the tail was rejected for its gas after compose() had passed, and       *)
(* nothing was emitted                                                     *)
C27_Witness ==
    /\ kernel.pc = "rejected"
    /\ kernel.tail = "finish"
    /\ kernel.inputs = None
    /\ kernel.end.new_nullifiers[1].value # 0
    /\ ComposedTotalGas.da_gas > kernel.gas_settings.gas_limits.da_gas

(* C29: validate_call_requests accepts a call stack only if every call     *)
(* request with a non-zero declared hash has the contract address of the   *)
(* function being verified as its caller_contract_address and, when its    *)
(* caller context is not empty, the msg_sender and the storage contract    *)
(* address of the function being verified in that caller context.          *)
C29_CallRequestsNameTheirCaller ==
    kernel.requests_valid = "accepted" =>
        \A i \in 1..MaxVecLen :
            DeclaredHashes[i] # ZeroHash =>
                LET request == kernel.caller.private_call_stack[i]
                IN /\ request.caller_contract_address = kernel.caller.call_stack_item.contract_address
                   /\ request.caller_context # EmptyCallerContext =>
                          /\ request.caller_context.msg_sender = CallerCallContext.msg_sender
                          /\ request.caller_context.storage_contract_address = CallerCallContext.storage_contract_address

(* an accepted request that carries the caller context of a caller whose   *)
(* storage address is not its own address                                  *)
C29_Witness ==
    /\ kernel.requests_valid = "accepted"
    /\ DeclaredHashes[1] # ZeroHash
    /\ kernel.caller.private_call_stack[1].caller_context # EmptyCallerContext
    /\ kernel.caller.private_call_stack[1].caller_context.storage_contract_address # kernel.caller.call_stack_item.contract_address

(***************************************************************************)
(* SpecCapacity: the bounded sequences of the two builders. A behaviour is *)
(* either the execution of a call on its PrivateContext (kernel is None)   *)
(* or the filling of the PrivateAccumulatedDataBuilder of a transaction.   *)
(***************************************************************************)

InitCapacity == Init \/ InitGas

PerCall == kernel = None

PerTx == kernel # None

NextCapacity ==
    \/ (PerCall /\ PushNewNoteHash)
    \/ (PerCall /\ PushNewNullifier)
    \/ (PerCall /\ PushNoteHashReadRequest)
    \/ (PerCall /\ PushNullifierReadRequest)
    \/ (PerCall /\ PushEncryptedLog)
    \/ (PerCall /\ EmitUnencryptedLog)
    \/ (PerCall /\ CallPrivateFunction)
    \/ (PerCall /\ ReturnToCaller)
    \/ (PerCall /\ CallPublicFunction)
    \/ (PerCall /\ Finish)
    \/ (PerTx /\ BuilderPushNoteHash)
    \/ (PerTx /\ BuilderPushNullifier)
    \/ (PerTx /\ BuilderPushL2ToL1Msg)

SpecCapacity == InitCapacity /\ [][NextCapacity]_vars

(* the bounded sequences of a PrivateContext *)
ContextSequences ==
    { "note_hash_read_requests", "nullifier_read_requests", "nullifier_key_validation_requests",
      "new_note_hashes", "new_nullifiers", "private_call_stack_hashes", "public_call_stack_hashes",
      "new_l2_to_l1_msgs", "encrypted_logs_hashes", "unencrypted_logs_hashes" }

(* the bounded sequences of the model's PrivateAccumulatedDataBuilder that are pushed onto *)
BuilderSequences == {"new_note_hashes", "new_nullifiers", "new_l2_to_l1_msgs"}

BuilderCapacity(field) ==
    CASE field = "new_note_hashes" -> MAX_NEW_NOTE_HASHES_PER_TX
      [] field = "new_nullifiers" -> MAX_NEW_NULLIFIERS_PER_TX
      [] field = "new_l2_to_l1_msgs" -> MAX_NEW_L2_TO_L1_MSGS_PER_TX

BuilderEmpty(field) ==
    CASE field = "new_note_hashes" -> EmptyNoteHashContext
      [] field = "new_nullifiers" -> EmptyNullifier
      [] field = "new_l2_to_l1_msgs" -> 0

(* C28: no bounded sequence of a PrivateContext or of the                  *)
(* PrivateAccumulatedDataBuilder ever holds more entries than its          *)
(* capacity; a push onto a full sequence fails (the call is aborted, the   *)
(* transaction rejected) and leaves every sequence as it was.              *)
C28_BoundedSequencesWithinCapacity ==
    /\ [](PerCall => \A f \in DOMAIN frames : \A field \in ContextSequences : Len(frames[f].ctx[field]) <= MaxVecLen)
    /\ [](PerTx => \A field \in BuilderSequences :
                      /\ Len(kernel.end[field]) = BuilderCapacity(field)
                      /\ kernel.len[field] <= BuilderCapacity(field)
                      /\ \A i \in DOMAIN kernel.end[field] : i > kernel.len[field] => kernel.end[field][i] = BuilderEmpty(field))
    /\ [][(PerCall /\ status' = "aborted") => (frames' = frames /\ emitted' = emitted /\ public_inputs' = public_inputs)]_vars
    /\ [][(PerCall /\ frames' # frames /\ Len(frames') = Len(frames)) =>
              \A field \in ContextSequences : (Len(Top.ctx[field]) = MaxVecLen => frames'[Len(frames')].ctx[field] = Top.ctx[field])]_vars
    /\ [][(PerTx /\ kernel'.pc = "rejected") => (kernel'.end = kernel.end /\ kernel'.len = kernel.len /\ kernel'.inputs = None)]_vars
    /\ [][(PerTx /\ \A field \in BuilderSequences : kernel.len[field] = BuilderCapacity(field)) => kernel'.pc = "rejected"]_vars

(* a call aborted by a push onto its full note-hash sequence *)
C28_Witness ==
    /\ PerCall
    /\ status = "aborted"
    /\ Len(Top.ctx.new_note_hashes) = MaxVecLen
    /\ Top.ctx.side_effect_counter = MaxVecLen

(* a transaction rejected by a push onto a full sequence of its builder *)
C28_BuilderWitness ==
    /\ PerTx
    /\ kernel.pc = "rejected"
    /\ kernel.len.new_nullifiers = MAX_NEW_NULLIFIERS_PER_TX
    /\ kernel.end.new_nullifiers[MAX_NEW_NULLIFIERS_PER_TX] = FirstNullifier

(***************************************************************************)
(* The order of the composer's steps.                                      *)
(***************************************************************************)

(* the composer before compose() has done anything else than the first assertion *)
NothingComposed ==
    /\ kernel.end = EmptyAccumulatedData
    /\ kernel.sorted = UnreadSorted
    /\ kernel.note_hashes = Unread
    /\ kernel.nullifiers = Unread
    /\ kernel.inputs = None

PrivateCallsPending ==
    \E i \in DOMAIN kernel.previous_kernel.private_call_stack : kernel.previous_kernel.private_call_stack[i] # EmptyCallRequest

MaxComposeRuns == 2

(* the index hint of each non-empty element: its place in the claimed sorted array *)
SortedIndexesOf(original, sorted, empty) ==
    [ i \in DOMAIN original |->
        IF original[i] # empty /\ \E k \in DOMAIN sorted : sorted[k] = original[i]
        THEN (CHOOSE k \in DOMAIN sorted : sorted[k] = original[i]) - 1
        ELSE 0 ]

propagate_sorted_arrays_once(self) ==
    LET accumulated_data == self.previous_kernel
        note_hashes == propagate_sorted_array(self, "new_note_hashes", accumulated_data.new_note_hashes, self.sorted.new_note_hashes, self.sorted_indexes.new_note_hashes, EmptyNoteHashContext, "sort_nullifiers")
        nullifiers == propagate_sorted_array(note_hashes, "new_nullifiers", accumulated_data.new_nullifiers, self.sorted.new_nullifiers, self.sorted_indexes.new_nullifiers, EmptyNullifier, "sort_encrypted_logs")
        encrypted == propagate_sorted_array(nullifiers, "encrypted_logs_hashes", accumulated_data.encrypted_logs_hashes, self.sorted.encrypted_logs_hashes, self.sorted_indexes.encrypted_logs_hashes, EmptySideEffect, "sort_unencrypted_logs")
        unencrypted == propagate_sorted_array(encrypted, "unencrypted_logs_hashes", accumulated_data.unencrypted_logs_hashes, self.sorted.unencrypted_logs_hashes, self.sorted_indexes.unencrypted_logs_hashes, EmptySideEffect, "squash")
    IN IF note_hashes.pc = "rejected" THEN note_hashes
       ELSE IF nullifiers.pc = "rejected" THEN nullifiers
       ELSE IF encrypted.pc = "rejected" THEN encrypted
       ELSE IF unencrypted.pc = "rejected" THEN unencrypted
       ELSE IF self.end.new_nullifiers # EmptyArray(EmptyNullifier) THEN [ self EXCEPT !.pc = "squash" ]
       ELSE [ unencrypted EXCEPT
                !.end.new_l2_to_l1_msgs = array_to_bounded_vec(accumulated_data.new_l2_to_l1_msgs),
                !.end.encrypted_log_preimages_length = accumulated_data.encrypted_log_preimages_length,
                !.end.unencrypted_log_preimages_length = accumulated_data.unencrypted_log_preimages_length ]

(* KernelCircuitPublicInputsComposer::propagate_sorted_arrays: the four    *)
(* assert_sorted_array in their order, each followed by its assignment,    *)
(* then the side effects that are copied unsorted                          *)
propagate_sorted_arrays(self) ==
    LET accumulated_data == self.previous_kernel
        note_hashes == propagate_sorted_array(self, "new_note_hashes", accumulated_data.new_note_hashes, self.sorted.new_note_hashes, self.sorted_indexes.new_note_hashes, EmptyNoteHashContext, "sort_nullifiers")
        nullifiers == propagate_sorted_array(note_hashes, "new_nullifiers", accumulated_data.new_nullifiers, self.sorted.new_nullifiers, self.sorted_indexes.new_nullifiers, EmptyNullifier, "sort_encrypted_logs")
        encrypted == propagate_sorted_array(nullifiers, "encrypted_logs_hashes", accumulated_data.encrypted_logs_hashes, self.sorted.encrypted_logs_hashes, self.sorted_indexes.encrypted_logs_hashes, EmptySideEffect, "sort_unencrypted_logs")
        unencrypted == propagate_sorted_array(encrypted, "unencrypted_logs_hashes", accumulated_data.unencrypted_logs_hashes, self.sorted.unencrypted_logs_hashes, self.sorted_indexes.unencrypted_logs_hashes, EmptySideEffect, "squash")
    IN IF note_hashes.pc = "rejected" THEN note_hashes
       ELSE IF nullifiers.pc = "rejected" THEN nullifiers
       ELSE IF encrypted.pc = "rejected" THEN encrypted
       ELSE IF unencrypted.pc = "rejected" THEN unencrypted
       ELSE [ unencrypted EXCEPT
                !.end.new_l2_to_l1_msgs = array_to_bounded_vec(accumulated_data.new_l2_to_l1_msgs),
                !.end.encrypted_log_preimages_length = accumulated_data.encrypted_log_preimages_length,
                !.end.unencrypted_log_preimages_length = accumulated_data.unencrypted_log_preimages_length ]

compose_without_squashing(self) ==
    LET propagated == propagate_sorted_arrays(self)
        siloed == silo_note_hashes(propagated.end)
    IN IF array_length(self.previous_kernel.private_call_stack, EmptyCallRequest) # 0 THEN [ self EXCEPT !.pc = "rejected" ]
       ELSE IF propagated.pc = "rejected" THEN [ self EXCEPT !.pc = "rejected" ]
       ELSE IF ~siloed.ok THEN [ self EXCEPT !.pc = "rejected" ]
       ELSE [ self EXCEPT !.end = siloed.end, !.pc = "composed" ]

(* KernelCircuitPublicInputsComposer::compose: the composer it returns, at *)
(* "composed"; at "rejected", and otherwise as it was, when an assertion   *)
(* of one of its steps fails                                               *)
compose(self) ==
    LET propagated == propagate_sorted_arrays(self)
        squashed == squash_transient_data(propagated.end, self.note_hashes, self.nullifiers, self.transient)
        siloed == silo_note_hashes(squashed.end)
    IN IF array_length(self.previous_kernel.private_call_stack, EmptyCallRequest) # 0 THEN [ self EXCEPT !.pc = "rejected" ]
       ELSE IF propagated.pc = "rejected" THEN [ self EXCEPT !.pc = "rejected" ]
       ELSE IF ~squashed.ok THEN [ self EXCEPT !.pc = "rejected" ]
       ELSE IF ~siloed.ok THEN [ self EXCEPT !.pc = "rejected" ]
       ELSE [ self EXCEPT !.end = siloed.end, !.pc = "composed" ]

(* KernelCircuitPublicInputsComposer::compose_public *)
compose_public(self) ==
    LET composed == compose(self)
    IN IF composed.pc = "rejected" THEN composed
       ELSE [ composed EXCEPT
                !.end = propagate_sorted_public_call_requests(composed.end, self.previous_kernel.public_call_stack),
                !.pc = "composed_public" ]

(* accumulated note hashes and nullifiers of the previous kernel: in       *)
(* counter order or against it, with and without the transient pair        *)
PreviousNoteHashes ==
    { PadRight(note_hashes, EmptyNoteHashContext) :
        note_hashes \in { << >>, << SettledNoteHash >>, << TransientNoteHash >>, << TransientNoteHash, SettledNoteHash >>, << SettledNoteHash, TransientNoteHash >> } }

PreviousNullifiers ==
    { PadRight(nullifiers, EmptyNullifier) :
        nullifiers \in { << >>, << FirstNullifier >>, << FirstNullifier, TransientNullifier >>, << TransientNullifier, FirstNullifier >> } }

(* new(): the composer of a previous kernel, with sorted arrays that are   *)
(* the sort of the previous kernel's or a copy of them, and final arrays   *)
(* that are the squashed sorted arrays or a copy of them                   *)
InitComposer ==
    /\ \E new_note_hashes \in PreviousNoteHashes, new_nullifiers \in PreviousNullifiers,
          private_call_stack \in {EmptyArray(EmptyCallRequest), FirstSlot(EarlyCallRequest, EmptyCallRequest)},
          public_call_stack \in {EmptyArray(EmptyCallRequest), FirstSlot(LateCallRequest, EmptyCallRequest)},
          encrypted_logs_hashes \in {EmptyArray(EmptySideEffect), FirstSlot(SomeLogHash, EmptySideEffect)},
          rest \in UnsortedSideEffects,
          sorting \in BOOLEAN, squashing \in BOOLEAN, transient \in TransientHints :
         LET previous_kernel == [ private_call_stack |-> private_call_stack,
                                  public_call_stack |-> public_call_stack,
                                  new_note_hashes |-> new_note_hashes,
                                  new_nullifiers |-> new_nullifiers,
                                  encrypted_logs_hashes |-> encrypted_logs_hashes,
                                  unencrypted_logs_hashes |-> EmptyArray(EmptySideEffect),
                                  new_l2_to_l1_msgs |-> rest.new_l2_to_l1_msgs,
                                  encrypted_log_preimages_length |-> rest.encrypted_log_preimages_length,
                                  unencrypted_log_preimages_length |-> rest.unencrypted_log_preimages_length ]
             sorted == [ new_note_hashes |-> IF sorting THEN ReferenceSort(new_note_hashes, EmptyNoteHashContext) ELSE new_note_hashes,
                         new_nullifiers |-> IF sorting THEN ReferenceSort(new_nullifiers, EmptyNullifier) ELSE new_nullifiers,
                         encrypted_logs_hashes |-> encrypted_logs_hashes,
                         unencrypted_logs_hashes |-> EmptyArray(EmptySideEffect) ]
         IN kernel = [ pc |-> "new",
                       runs |-> 0,
                       previous_kernel |-> previous_kernel,
                       sorted |-> sorted,
                       sorted_indexes |-> [ new_note_hashes |-> SortedIndexesOf(new_note_hashes, sorted.new_note_hashes, EmptyNoteHashContext),
                                            new_nullifiers |-> SortedIndexesOf(new_nullifiers, sorted.new_nullifiers, EmptyNullifier),
                                            encrypted_logs_hashes |-> SortedIndexesOf(encrypted_logs_hashes, sorted.encrypted_logs_hashes, EmptySideEffect),
                                            unencrypted_logs_hashes |-> [i \in 1..MaxVecLen |-> 0] ],
                       note_hashes |-> IF squashing THEN PadRight(SelectSeq(sorted.new_note_hashes, IsSettledNoteHash), EmptyNoteHashContext) ELSE sorted.new_note_hashes,
                       nullifiers |-> IF squashing THEN PadRight(SelectSeq(sorted.new_nullifiers, IsSettledNullifier), EmptyNullifier) ELSE sorted.new_nullifiers,
                       transient |-> transient,
                       end |-> EmptyAccumulatedData,
                       tail |-> "none",
                       gas_settings |-> None,
                       min_revertible_side_effect_counter |-> 0,
                       inputs |-> None ]
    /\ frames = << >>
    /\ status = "running"
    /\ emitted = << >>
    /\ windows = << >>
    /\ public_inputs = None
    /\ last_call = None

(* the composer can be used: no assertion has failed and no public inputs were emitted from it *)
ComposerUsable == kernel.pc \in {"new", "composed", "composed_public"}

Compose ==
    /\ ComposerUsable
    /\ kernel.runs < MaxComposeRuns
    /\ kernel' = [ compose(kernel) EXCEPT !.runs = @ + 1 ]
    /\ KernelUnchanged

ComposePublic ==
    /\ ComposerUsable
    /\ kernel.runs < MaxComposeRuns
    /\ kernel' = [ compose_public(kernel) EXCEPT !.runs = @ + 1 ]
    /\ KernelUnchanged

ComposerFinish ==
    /\ ComposerUsable
    /\ \E gas_settings \in TailGasSettings :
         LET result == KernelCircuitPublicInputsComposer_finish(kernel.end, gas_settings)
         IN kernel' = [ kernel EXCEPT
                          !.tail = "finish",
                          !.gas_settings = gas_settings,
                          !.pc = IF result.ok THEN "finished" ELSE "rejected",
                          !.inputs = result.inputs ]
    /\ KernelUnchanged

ComposerFinishToPublic ==
    /\ ComposerUsable
    /\ \E gas_settings \in TailGasSettings, min_revertible_side_effect_counter \in {2, AboveAllCounters} :
         LET result == KernelCircuitPublicInputsComposer_finish_to_public(kernel.end, gas_settings, min_revertible_side_effect_counter)
         IN kernel' = [ kernel EXCEPT
                          !.tail = "finish_to_public",
                          !.gas_settings = gas_settings,
                          !.min_revertible_side_effect_counter = min_revertible_side_effect_counter,
                          !.pc = IF result.ok THEN "finished_to_public" ELSE "rejected",
                          !.inputs = result.inputs ]
    /\ KernelUnchanged

NextComposer ==
    \/ Compose
    \/ ComposePublic
    \/ ComposerFinish
    \/ ComposerFinishToPublic

SpecComposer == InitComposer /\ [][NextComposer]_vars

(* compose() has run on the composer and returned: the claimed sorted      *)
(* arrays are the sort of the previous kernel's, the final arrays are the  *)
(* sorted arrays without their transient pairs, and the accumulated note   *)
(* hashes are the final ones siloed with the first final nullifier         *)
ComposedInOrder ==
    /\ kernel.previous_kernel.private_call_stack = EmptyArray(EmptyCallRequest)
    /\ \A array \in SortedArrays : kernel.sorted[array.field] = ReferenceSort(kernel.previous_kernel[array.field], array.empty)
    /\ kernel.note_hashes = SquashedNoteHashes
    /\ kernel.nullifiers = SquashedNullifiers
    /\ kernel.nullifiers[1].value # 0
    /\ kernel.end.new_nullifiers = kernel.nullifiers
    /\ kernel.end.encrypted_logs_hashes = kernel.sorted.encrypted_logs_hashes
    /\ \A i \in 1..MaxVecLen :
           kernel.end.new_note_hashes[i] =
               IF kernel.note_hashes[i].value # 0 THEN [ kernel.note_hashes[i] EXCEPT !.value = SiloedValue(i) ] ELSE kernel.note_hashes[i]

(* C32 as stated: public inputs are emitted only by a composer on which    *)
(* compose() has run, its steps having passed in the order sort-and-prove, *)
(* squash, silo.                                                           *)
C32_Original ==
    ComposeEmitted => (kernel.runs > 0 /\ ComposedInOrder)

(* C32 amended: a compose() that returns has run sort-and-prove, then      *)
(* squash, then silo, all of which passed, and public inputs emitted after *)
(* it are those of its result; the composer keeps no record of compose()   *)
(* having run, so finish() and finish_to_public() on a composer on which   *)
(* it never ran emit the public inputs of empty accumulated data.          *)
C32_ComposeRunsItsStepsInOrder ==
    /\ (kernel.runs > 0 /\ kernel.pc # "rejected") => ComposedInOrder
    /\ kernel.pc = "finished" => kernel.inputs.end = to_combined(kernel.end, kernel.gas_settings.teardown_gas_limits)
    /\ (ComposeEmitted /\ kernel.runs = 0) => kernel.end = EmptyAccumulatedData

(* finish() emitted public inputs from a composer on which compose() never ran *)
C32_Witness ==
    /\ kernel.pc = "finished"
    /\ kernel.runs = 0
    /\ kernel.previous_kernel.new_note_hashes[1] = TransientNoteHash
    /\ kernel.inputs.end.new_nullifiers = [i \in 1..MaxVecLen |-> 0]

(* finish() emitted public inputs after one compose() that squashed a transient pair *)
C32_ComposedWitness ==
    /\ kernel.pc = "finished"
    /\ kernel.runs = 1
    /\ kernel.previous_kernel.new_note_hashes[1] = SettledNoteHash
    /\ kernel.previous_kernel.new_note_hashes[2] = TransientNoteHash
    /\ kernel.inputs.end.new_note_hashes[1] # 0
    /\ kernel.inputs.end.new_note_hashes[2] = 0

(* the accumulated data that compose() writes: every field but the public call stack *)
ComposedData(end) == [ end EXCEPT !.public_call_stack = EmptyArray(EmptyCallRequest) ]

(* C38: compose() is idempotent: a compose() run on a composer on which    *)
(* compose() has already returned passes again and leaves the accumulated  *)
(* data, and so the public inputs emitted from it, as the first run left   *)
(* them; the note hashes are siloed once, each run deriving them again     *)
(* from the unsiloed final arrays.                                         *)
C38_ComposeIsIdempotent ==
    [][(ComposerUsable /\ kernel.runs > 0 /\ kernel'.runs = kernel.runs + 1) =>
           /\ kernel'.pc # "rejected"
           /\ ComposedData(kernel'.end) = ComposedData(kernel.end)
           /\ kernel'.pc = kernel.pc => kernel'.end = kernel.end
           /\ \A gas_settings \in TailGasSettings :
                  KernelCircuitPublicInputsComposer_finish(kernel'.end, gas_settings) = KernelCircuitPublicInputsComposer_finish(kernel.end, gas_settings)
           /\ \A i \in 1..MaxVecLen :
                  kernel'.end.new_note_hashes[i].value = IF kernel.note_hashes[i].value # 0 THEN SiloedValue(i) ELSE 0]_vars

(* compose() has run twice on a composer whose final arrays hold a note hash *)
C38_Witness ==
    /\ kernel.pc = "composed"
    /\ kernel.runs = 2
    /\ kernel.note_hashes[1] = SettledNoteHash
    /\ kernel.end.new_note_hashes[1].value = SiloedValue(1)
    /\ \E i \in 1..MaxVecLen : kernel.previous_kernel.new_note_hashes[i] = TransientNoteHash

(* C39: the silo step changes only the value of note hashes whose value is *)
(* not zero: the counter and the nullifier_counter of every note hash, the *)
(* places and the number of the non-empty note hashes, every empty slot,   *)
(* and the nullifiers, log hashes, log lengths, L2-to-L1 messages and call *)
(* stacks are after it as they were before it.                             *)
C39_SiloChangesOnlyNoteHashValues ==
    [][kernel.pc = "silo" =>
           /\ [ kernel'.end EXCEPT !.new_note_hashes = kernel.end.new_note_hashes ] = kernel.end
           /\ \A i \in DOMAIN kernel.end.new_note_hashes :
                  /\ kernel'.end.new_note_hashes[i].counter = kernel.end.new_note_hashes[i].counter
                  /\ kernel'.end.new_note_hashes[i].nullifier_counter = kernel.end.new_note_hashes[i].nullifier_counter
                  /\ (kernel'.end.new_note_hashes[i] = EmptyNoteHashContext) <=> (kernel.end.new_note_hashes[i] = EmptyNoteHashContext)
                  /\ kernel.end.new_note_hashes[i].value = 0 => kernel'.end.new_note_hashes[i] = kernel.end.new_note_hashes[i]
           /\ DOMAIN kernel'.end.new_note_hashes = DOMAIN kernel.end.new_note_hashes
           /\ kernel'.note_hashes = kernel.note_hashes
           /\ kernel'.nullifiers = kernel.nullifiers]_vars

(* the silo step ran on accumulated data with a note hash, two nullifiers, a log hash and a message *)
C39_Witness ==
    /\ kernel.pc = "composed"
    /\ kernel.end.new_note_hashes[1] = [ SettledNoteHash EXCEPT !.value = SiloedValue(1) ]
    /\ kernel.end.new_note_hashes[2] = EmptyNoteHashContext
    /\ kernel.end.new_nullifiers[1] = FirstNullifier
    /\ kernel.end.encrypted_logs_hashes[1] = SomeLogHash
    /\ kernel.end.new_l2_to_l1_msgs[1] = SomeMessage

(***************************************************************************)
(* The tree of execution windows, under Spec.                              *)
(***************************************************************************)

(* the window of the caller of the call that reported windows[i]: the      *)
(* first later window one level up, 0 while that caller has not returned   *)
CallerWindowOf(i) ==
    LET later == { j \in (i + 1)..Len(windows) : windows[j].depth = windows[i].depth - 1 }
    IN IF later = {} THEN 0 ELSE CHOOSE j \in later : \A k \in later : j <= k

(* the calls the entry invocation made itself *)
CalledByEntry(i) == windows[i].depth = 2

SiblingsApart ==
    \A i, k \in 1..Len(windows) :
        (i < k /\ windows[i].depth = windows[k].depth /\ CallerWindowOf(i) = CallerWindowOf(k)) =>
            windows[k].start > windows[i].end

(* C33 as stated: the window of every nested private callee lies strictly  *)
(* inside the window of its caller, and the windows of two calls made by   *)
(* the same caller do not overlap: the later starts after the earlier ends.*)
C33_Original ==
    /\ \A i \in 1..Len(windows) :
           /\ CallerWindowOf(i) # 0 =>
                  /\ windows[CallerWindowOf(i)].start < windows[i].start
                  /\ windows[i].end < windows[CallerWindowOf(i)].end
           /\ (CalledByEntry(i) /\ status = "finished") =>
                  /\ public_inputs.start_side_effect_counter < windows[i].start
                  /\ windows[i].end < public_inputs.end_side_effect_counter
    /\ SiblingsApart

(* C33 amended: the window of every nested private callee lies inside the  *)
(* window of its caller: it starts at or after the caller's start, at it   *)
(* when the caller recorded nothing before the call, and it ends strictly  *)
(* before the caller's end; every window has start <= end; the windows of  *)
(* two calls made by the same caller do not overlap.                       *)
C33_WindowsFormATree ==
    /\ \A i \in 1..Len(windows) :
           /\ windows[i].start <= windows[i].end
           /\ CallerWindowOf(i) # 0 =>
                  /\ windows[CallerWindowOf(i)].start <= windows[i].start
                  /\ windows[i].end < windows[CallerWindowOf(i)].end
           /\ CallerWindowOf(i) = 0 =>
                  /\ frames[windows[i].depth - 1].ctx.inputs.start_side_effect_counter <= windows[i].start
                  /\ windows[i].end < frames[windows[i].depth - 1].ctx.side_effect_counter
           /\ (CalledByEntry(i) /\ status = "finished") =>
                  /\ public_inputs.start_side_effect_counter <= windows[i].start
                  /\ windows[i].end < public_inputs.end_side_effect_counter
    /\ SiblingsApart

(* the entry invocation finished after two calls, the first made before it *)
(* recorded anything: the first callee's window starts where the entry's does *)
C33_Witness ==
    /\ status = "finished"
    /\ Len(windows) = 2
    /\ CalledByEntry(1) /\ CalledByEntry(2)
    /\ windows[1].start = public_inputs.start_side_effect_counter
    /\ windows[1].end > windows[1].start
    /\ windows[2].start > windows[1].end

(* C34: a call request for a call that is not a delegate call has an empty *)
(* caller context: validate_call_against_request accepts a callee whose    *)
(* call context is not a delegate call only if the caller context of the   *)
(* request it is matched with is empty.                                    *)
C34_NonDelegateRequestHasEmptyCallerContext ==
    (kernel.call_valid = "accepted" /\ ~CalleeContext.is_delegate_call) =>
        kernel.request.caller_context = EmptyCallerContext

(* both validators accepted a request with a caller context for a callee that is not a delegate call *)
C34_AcceptedWithCallerContext ==
    /\ kernel.requests_valid = "accepted"
    /\ kernel.call_valid = "accepted"
    /\ ~CalleeContext.is_delegate_call
    /\ kernel.request.caller_context # EmptyCallerContext
    /\ kernel.request.hash = ItemHash(kernel.callee.call_stack_item)

(* C35: the tracker and the validator agree: every nested private call     *)
(* that is not a delegate call, that passes the caller-side assertions of  *)
(* call_private_function_with_packed_args and whose request (with the hash *)
(* of the callee) passes is_valid_caller for that caller, also passes      *)
(* validate_call_against_request, whatever the caller, a caller executing  *)
(* under a delegate call included.                                         *)
C35_TrackerAndValidatorAgree ==
    ( /\ ~CalleeContext.is_delegate_call
      /\ CalleeAcceptedByTracker
      /\ kernel.request # EmptyCallRequest
      /\ kernel.request.hash = ItemHash(kernel.callee.call_stack_item)
      /\ is_valid_caller(kernel.request, kernel.caller) ) =>
        kernel.call_valid # "rejected"

(* the same for callers that are not executing under a delegate call *)
C35_AgreeForOrdinaryCallers ==
    ( /\ ~CalleeContext.is_delegate_call
      /\ ~CallerCallContext.is_delegate_call
      /\ CalleeAcceptedByTracker
      /\ kernel.request # EmptyCallRequest
      /\ kernel.request.hash = ItemHash(kernel.callee.call_stack_item)
      /\ is_valid_caller(kernel.request, kernel.caller) ) =>
        kernel.call_valid # "rejected"

(* C36: the two tail flavours meter the same total gas: for the same       *)
(* accumulated data and teardown gas, the gas_used of the non-revertible   *)
(* and of the revertible output of split_to_public sum to the gas_used of  *)
(* to_combined, for every min_revertible_side_effect_counter and every     *)
(* content, L2-to-L1 messages included.                                    *)
C36_TailFlavoursMeterTheSameGas ==
    kernel.pc = "done" =>
        GasAdd(kernel.split.non_revertible.gas_used, kernel.split.revertible.gas_used)
            = to_combined(kernel.end, kernel.teardown_gas).gas_used

(* the same for accumulated data without L2-to-L1 messages *)
C36_SameGasWithoutMessages ==
    (kernel.pc = "done" /\ kernel.end.new_l2_to_l1_msgs = EmptyArray(0)) =>
        GasAdd(kernel.split.non_revertible.gas_used, kernel.split.revertible.gas_used)
            = to_combined(kernel.end, kernel.teardown_gas).gas_used

(* C37: a static invocation that records no side effect and whose public   *)
(* inputs are those finish() returns passes perform_static_call_checks:    *)
(* the log preimage lengths that finish() gives an effect-free call are    *)
(* the ones the static-call check accepts.                                 *)
C37_EffectFreeStaticCallPassesStaticChecks ==
    ( /\ public_inputs # None
      /\ public_inputs.call_context.is_static_call
      /\ is_empty_array(public_inputs.new_note_hashes, EmptyNoteHash)
      /\ is_empty_array(public_inputs.new_nullifiers, EmptyNullifier)
      /\ is_empty_array(public_inputs.new_l2_to_l1_msgs, EmptyL2ToL1Message)
      /\ is_empty_array(public_inputs.encrypted_logs_hashes, EmptySideEffect)
      /\ is_empty_array(public_inputs.unencrypted_logs_hashes, EmptySideEffect) ) =>
        perform_static_call_checks([ call_stack_item |-> [ public_inputs |-> public_inputs ] ])

(* the static-call check passes the same public inputs once both log       *)
(* preimage lengths are replaced by the length of an empty log buffer      *)
C37_PassesWithEmptyBufferLengths ==
    ( /\ public_inputs # None
      /\ public_inputs.call_context.is_static_call
      /\ is_empty_array(public_inputs.new_note_hashes, EmptyNoteHash)
      /\ is_empty_array(public_inputs.new_nullifiers, EmptyNullifier)
      /\ is_empty_array(public_inputs.new_l2_to_l1_msgs, EmptyL2ToL1Message) ) =>
        perform_static_call_checks([ call_stack_item |-> [ public_inputs |->
            [ public_inputs EXCEPT !.encrypted_log_preimages_length = EmptyLogPreimagesLength,
                                   !.unencrypted_log_preimages_length = EmptyLogPreimagesLength ] ] ])

(***************************************************************************)
(* SpecMeter: to_metered_gas_used on accumulated data whose log preimage   *)
(* lengths are Fields. A Field length is written [hi, lo] for the value    *)
(* hi * 2^32 + lo with lo below 2^32; the builder's own lengths elsewhere  *)
(* in this module are the Fields with hi = 0.                              *)
(***************************************************************************)

FieldLengths == [ hi : {0, 1}, lo : {0, 4, 8} ]

FieldLeq(a, b) == a.hi < b.hi \/ (a.hi = b.hi /\ a.lo <= b.lo)

(* `length as u32` on a Field: the low 32 bits *)
Field_as_u32(length) == length.lo

(* to_metered_gas_used of accumulated data with these two Field lengths *)
MeteredGasUsed(end, encrypted_log_preimages_length, unencrypted_log_preimages_length) ==
    to_metered_gas_used([ end EXCEPT
        !.encrypted_log_preimages_length = Field_as_u32(encrypted_log_preimages_length),
        !.unencrypted_log_preimages_length = Field_as_u32(unencrypted_log_preimages_length) ])

InitMeter ==
    /\ \E new_note_hashes \in PaddedArraysOf({EmptyNoteHashContext, EarlierNoteHash, SettledNoteHash}, EmptyNoteHashContext),
          new_nullifiers \in PaddedArraysOf({EmptyNullifier, FirstNullifier, OtherNullifier}, EmptyNullifier),
          new_l2_to_l1_msgs \in {EmptyArray(0), FirstSlot(SomeMessage, 0)},
          encrypted \in FieldLengths, unencrypted \in FieldLengths :
         kernel = [ pc |-> "meter",
                    end |-> [ EmptyAccumulatedData EXCEPT
                                !.new_note_hashes = new_note_hashes,
                                !.new_nullifiers = new_nullifiers,
                                !.new_l2_to_l1_msgs = new_l2_to_l1_msgs ],
                    lengths |-> [ encrypted |-> encrypted, unencrypted |-> unencrypted ],
                    gas_used |-> GasNew(0, 0) ]
    /\ frames = << >>
    /\ status = "running"
    /\ emitted = << >>
    /\ windows = << >>
    /\ public_inputs = None
    /\ last_call = None

ToMeteredGasUsed ==
    /\ kernel.pc = "meter"
    /\ kernel' = [ kernel EXCEPT
                     !.gas_used = MeteredGasUsed(kernel.end, kernel.lengths.encrypted, kernel.lengths.unencrypted),
                     !.pc = "metered" ]
    /\ KernelUnchanged

NextMeter == ToMeteredGasUsed

SpecMeter == InitMeter /\ [][NextMeter]_vars

(* C40: metered gas is monotonically non-decreasing in the encrypted and   *)
(* in the unencrypted log preimage length: for all lengths a <= b,         *)
(* to_metered_gas_used with length b is at least to_metered_gas_used with  *)
(* length a; the conversion of the Field lengths to u32 never wraps into a *)
(* smaller gas figure.                                                     *)
C40_MeteredGasMonotoneInLogLengths ==
    kernel.pc = "metered" =>
        \A a \in FieldLengths :
            /\ FieldLeq(a, kernel.lengths.encrypted) =>
                   MeteredGasUsed(kernel.end, a, kernel.lengths.unencrypted).da_gas <= kernel.gas_used.da_gas
            /\ FieldLeq(a, kernel.lengths.unencrypted) =>
                   MeteredGasUsed(kernel.end, kernel.lengths.encrypted, a).da_gas <= kernel.gas_used.da_gas

(* the same for lengths below 2^32 *)
C40_MonotoneBelowTwoToThe32 ==
    (kernel.pc = "metered" /\ kernel.lengths.encrypted.hi = 0 /\ kernel.lengths.unencrypted.hi = 0) =>
        \A a \in FieldLengths :
            /\ FieldLeq(a, kernel.lengths.encrypted) =>
                   MeteredGasUsed(kernel.end, a, kernel.lengths.unencrypted).da_gas <= kernel.gas_used.da_gas
            /\ FieldLeq(a, kernel.lengths.unencrypted) =>
                   MeteredGasUsed(kernel.end, kernel.lengths.encrypted, a).da_gas <= kernel.gas_used.da_gas

====
